---- MODULE Spec2Model ----
(***************************************************************************)
(* The scan workflow orchestrator of scansift (ScanOrchestrator) as a      *)
(* state machine.  Every async method is split at its await points: the    *)
(* synchronous prefix of a call is one action, and every continuation      *)
(* after an awaited collaborator call is one action.  Several calls may be *)
(* pending at once; the JavaScript event loop interleaves them only at the *)
(* awaits.                                                                 *)
(***************************************************************************)
EXTENDS Integers, Sequences, FiniteSets, TLC

\* Number of calls the client makes that change the orchestrator: accepted
\* startFrontScan, startBackScan and completeBatch calls, and reset() calls.
MaxCalls == 4
\* Largest number of regions the detector reports for one scan.
MaxPhotos == 2
\* isScannerReady() probes that may be pending at once.
MaxProbes == 1

\* The longest list of photos given to the pairing engine.
MaxSide == 3
\* Calls of the pairing engine a caller makes with the same two lists.
MaxPairings == 2

VARIABLES
    state,            \* ScanOrchestrator.state
    currentScanner,   \* ScanOrchestrator.currentScanner
    frontScanResult,  \* ScanOrchestrator.frontScanResult
    backScanResult,   \* ScanOrchestrator.backScanResult
    ops,              \* the accepted calls: position, locals, files written
    nextId,           \* index of the next randomUUID()
    probes,           \* pending isScannerReady() discoveries
    resets,           \* reset() calls made by the client so far
    emitted,          \* events emitted by the last step, in order
    lastStep,         \* which method or continuation the last step ran
    store             \* a client's useScanStore: its state and its socket

vars == <<state, currentScanner, frontScanResult, backScanResult, ops, nextId,
          probes, resets, emitted, lastStep, store>>

\* JavaScript null.
Null == [null |-> TRUE]

CallIds == 1..MaxCalls

\* GridPosition.
Positions == {"top-left", "top-right", "bottom-left", "bottom-right"}

\* The regions on the glass in this model, sorted by position as the detector
\* sorts them (top-left, top-right, bottom-left, bottom-right):
\* two regions lie in the top-left quadrant (both get its position), one in
\* the top-right and one in the bottom-left.  A scan that finds n regions
\* reports the first n.
Layout == <<"top-left", "top-left", "top-right", "bottom-left">>

\* The scanners a discovery can report, first one wins.
Discoveries == {<<>>, <<"scanner-a", "scanner-b">>}

\* What detectPhotos() can report: the positions of the regions, in order.
Detections == {SubSeq(Layout, 1, n) : n \in 0..MaxPhotos}

----------------------------------------------------------------------------
\* Errors (src/server/errors.ts): the class name decides instanceof.

ScannerError(msg) == [name |-> "ScannerError", message |-> msg]
DetectionError(msg) == [name |-> "DetectionError", message |-> msg]
ProcessingError(msg) == [name |-> "ProcessingError", message |-> msg]
StorageError(msg) == [name |-> "StorageError", message |-> msg]
PlainError(msg) == [name |-> "Error", message |-> msg]
\* Reading a property of null.
TypeError == [name |-> "TypeError", message |-> <<"Cannot read properties of null">>]

\* A classification that knows scanner failures alone.
IsRecoverableScannerOnly(error) == error.name = "ScannerError"

\* A classification that takes every failure for recoverable.
IsRecoverableAlways(error) == error.name = error.name

\* handleError: isRecoverable.
IsRecoverable(error) ==
    error.name \in {"ScannerError", "DetectionError", "ProcessingError"}

----------------------------------------------------------------------------
\* Events (OrchestratorEvents).

StateChanged(s) == [type |-> "state:changed", state |-> s]
ScanStarted(id, side) == [type |-> "scan:started", scanId |-> id, side |-> side]
ScanProgress(id, p) == [type |-> "scan:progress", scanId |-> id, progress |-> p]
ScanComplete(id, n) == [type |-> "scan:complete", scanId |-> id, photosDetected |-> n]
ScanErrorEvent(id, e) == [type |-> "scan:error", scanId |-> id, error |-> e]
BatchComplete(r) == [type |-> "batch:complete", result |-> r]

\* setupOrchestratorListeners: the orchestrator's events that have a
\* listener (scan:started has none).
IsBroadcast(e) ==
    e.type \in {"state:changed", "scan:progress", "scan:complete",
                "scan:error", "batch:complete"}

\* setupOrchestratorListeners: what io.emit sends for the event e.
BroadcastOf(e) ==
    CASE e.type = "state:changed" ->
             [type |-> "state:changed", state |-> e.state]
      [] e.type = "scan:progress" ->
             [type |-> "scan:progress", scanId |-> e.scanId,
              progress |-> e.progress]
      [] e.type = "scan:complete" ->
             [type |-> "scan:complete", scanId |-> e.scanId,
              photos |-> e.photosDetected]
      [] e.type = "scan:error" ->
             [type |-> "scan:error", scanId |-> e.scanId,
              message |-> e.error.message]
      [] e.type = "batch:complete" ->
             [type |-> "scan:complete", scanId |-> e.result.batchId,
              photos |-> e.result.pairsSaved]

\* What the server broadcasts for the events es, in order.
Broadcast(es) ==
    LET heard == SelectSeq(es, IsBroadcast)
    IN  [i \in 1..Len(heard) |-> BroadcastOf(heard[i])]

\* useScanStore as created: idle, no socket. (A socket is then "connecting"
\* until socket.connected is true.)
NewStore == [state |-> [status |-> "idle"], socket |-> "null"]

\* socket.on('scan:error') of the store.
StoreOnError(s, data) ==
    [s EXCEPT !.state = [status |-> "error", message |-> data.message,
                         recoverable |-> TRUE]]

\* socket.on('scan:complete') of the store.
StoreOnComplete(s, data) ==
    IF s.state.status = "processing_fronts"
    THEN [s EXCEPT !.state = [status |-> "ready_for_backs",
                              frontScanId |-> data.scanId,
                              photosDetected |-> data.photos]]
    ELSE IF s.state.status = "processing_backs"
    THEN [s EXCEPT !.state = [status |-> "complete",
                              batchId |-> data.scanId,
                              photosSaved |-> data.photos]]
    ELSE s

\* socket.on('scan:progress') of the store.
StoreOnProgress(s, data) ==
    IF s.state.status \in {"processing_fronts", "processing_backs"}
    THEN [s EXCEPT !.state = [progress |-> data.progress] @@ @]
    ELSE s

\* The store's handler for the message data; state:changed has none.
StoreOn(s, data) ==
    CASE data.type = "scan:progress" -> StoreOnProgress(s, data)
      [] data.type = "scan:complete" -> StoreOnComplete(s, data)
      [] data.type = "scan:error" -> StoreOnError(s, data)
      [] OTHER -> s

\* The store after the messages of one broadcast, delivered in order; a
\* store without a connected socket hears nothing.
RECURSIVE Delivered(_, _)
Delivered(s, messages) ==
    IF s.socket # "connected" \/ messages = <<>> THEN s
    ELSE Delivered(StoreOn(s, messages[1]), Tail(messages))

RECURSIVE Binade(_)
\* The largest power of two that is at most k, for k >= 1.
Binade(k) == IF k < 2 THEN 1 ELSE 2 * Binade(k \div 2)

\* Whether the double nearest to tenths/10 lies below it: the double 0.7 is
\* 0.7 - 0.2 * 2^-52, the doubles 0.1 and 0.2 lie above 0.1 and 0.2.
DoubleBelow(tenths) == tenths = 7

\* Math.round(progress * w) in IEEE doubles, for an integer progress >= 0 and
\* the literal w = tenths / 10.  Math.round rounds to the nearest integer,
\* halves upwards, so only an exact product k + 0.5 depends on the doubles:
\* with the double of w above w the double product is at least k + 0.5 and
\* the result is k + 1; with it below w by 0.2 * 2^-52 the exact double
\* product is k + 0.5 - progress * 0.2 * 2^-52, which rounds (to nearest,
\* ties to even) back to k + 0.5 only if that gap is at most half the
\* spacing 2^-52 * Binade(k) of the doubles below k + 0.5, that is if
\* 2 * progress <= 5 * Binade(k); otherwise it stays below and the result is k.
MathRoundTimes(progress, tenths) ==
    LET x == progress * tenths
        k == x \div 10
    IN  IF x % 10 # 5 THEN (x + 5) \div 10
        ELSE IF DoubleBelow(tenths) /\ 2 * progress > 5 * Binade(k)
             THEN k ELSE k + 1

\* A progress callback that gives the scanning stage 80 of the 100 points.
overallProgressWide(stage, progress) ==
    CASE stage = "initiating" -> MathRoundTimes(progress, 1)
      [] stage = "scanning" -> 10 + MathRoundTimes(progress, 8)
      [] stage = "downloading" -> 80 + MathRoundTimes(progress, 2)

\* progressCallback of ScanOrchestrator.performScan.
overallProgress(stage, progress) ==
    CASE stage = "initiating" -> MathRoundTimes(progress, 1)
      [] stage = "scanning" -> 10 + MathRoundTimes(progress, 7)
      [] stage = "downloading" -> 80 + MathRoundTimes(progress, 2)

----------------------------------------------------------------------------
\* A call that was never made.
NoOp ==
    [kind |-> "none", pc |-> "none", outcome |-> "none", scanner |-> "null",
     rawImagePath |-> Null, detected |-> <<>>, processed |-> <<>>,
     pairs |-> <<>>, savedCount |-> 0, trail |-> <<>>,
     written |-> <<>>, frontAtCall |-> Null, backAtCall |-> Null,
     consumed |-> {}]

\* A call that has resolved or rejected: its locals are gone (consumed keeps,
\* for a batch that resolved, the scans it saved or discarded).
DoneOp(op, outcome) ==
    [NoOp EXCEPT !.kind = op.kind, !.pc = "done", !.outcome = outcome]

\* What a step ran: the method or continuation, the call it belongs to, and
\* how the call stands after it.
Step(op, id, outcome) ==
    [op |-> op, id |-> id, outcome |-> outcome, error |-> Null, ret |-> Null,
     call |-> NoOp]

Init ==
    /\ state = [status |-> "idle"]
    /\ currentScanner = "null"
    /\ frontScanResult = Null
    /\ backScanResult = Null
    /\ ops = [i \in CallIds |-> NoOp]
    /\ nextId = 1
    /\ probes = 0
    /\ resets = 0
    /\ emitted = <<>>
    /\ store = NewStore
    /\ lastStep = Step("constructor", 0, "ok")

\* The step emits the events es, in order; the socket handler's listeners
\* broadcast them, and the store's handlers run on each.
Emit(es) ==
    /\ emitted' = es
    /\ store' = IF store.socket = "connected"
                 THEN Delivered(store, Broadcast(es))
                 ELSE store

\* The step ran x.
Mark(x) == lastStep' = x

\* The names of the methods, for lastStep.
MethodOf(o) ==
    CASE ops[o].kind = "front" -> "startFrontScan"
      [] ops[o].kind = "back" -> "startBackScan"
      [] ops[o].kind = "batch" -> "completeBatch"

\* Call o goes on to wait at pc.
Continue(o, pc) ==
    /\ ops' = [ops EXCEPT ![o].pc = pc]
    /\ Mark(Step(MethodOf(o), o, "pending"))

----------------------------------------------------------------------------
\* The client has calls left: call i of a scan or batch draws the i-th
\* randomUUID().
CallsLeft == (nextId - 1) + resets < MaxCalls

\* getState(): a pure read.
getState == state

\* updateState(idle) of reset().
IdleState == [status |-> "idle"]

\* A reset that returns to idle and keeps the results.
ResetStateOnly ==
    /\ CallsLeft
    /\ resets' = resets + 1
    /\ state' = IdleState
    /\ Emit(<<StateChanged(IdleState)>>)
    /\ Mark(Step("reset", 0, "ok"))
    /\ UNCHANGED <<currentScanner, frontScanResult, backScanResult, ops, nextId, probes>>

\* reset(): discards both results, then updateState(idle).
Reset ==
    /\ CallsLeft
    /\ resets' = resets + 1
    /\ frontScanResult' = Null
    /\ backScanResult' = Null
    /\ state' = IdleState
    /\ Emit(<<StateChanged(IdleState)>>)
    /\ Mark(Step("reset", 0, "ok"))
    /\ UNCHANGED <<currentScanner, ops, nextId, probes>>

\* The state check of startFrontScan.
CanStartFrontScan == state.status = "idle"

\* A state check of startBackScan that lets a retry through after a failure.
CanStartBackScanOrRetry == state.status \in {"ready_for_backs", "error"}

\* The state check of startBackScan.
CanStartBackScan == state.status = "ready_for_backs"

\* The check of completeBatch: a retained front result.
CanCompleteBatch == frontScanResult # Null

\* handleError's state.
ErrorState(error) ==
    [status |-> "error", message |-> error.message, recoverable |-> IsRecoverable(error)]

\* A handleError that broadcasts the failure twice.
HandleErrorEventsTwice(id, error) ==
    <<StateChanged(ErrorState(error)), ScanErrorEvent(id, error),
      ScanErrorEvent(id, error)>>

\* The events of handleError(id, error).
HandleErrorEvents(id, error) ==
    <<StateChanged(ErrorState(error)), ScanErrorEvent(id, error)>>

\* Call o rejects with error after its catch block ran handleError; op is the
\* call's record when it failed.
Reject(o, op, error) ==
    /\ ops' = [ops EXCEPT ![o] = DoneOp(op, "rejected")]
    /\ Mark([Step(MethodOf(o), o, "rejected") EXCEPT
                !.error = error,
                !.call = [op EXCEPT !.trail = Append(@, ErrorState(error))]])

\* catch (error) { this.handleError(id, error); throw error; } of call o:
\* updateState(error), emit scan:error, reject.
HandleError(o, error) ==
    /\ state' = ErrorState(error)
    /\ Emit(HandleErrorEvents(o, error))
    /\ Reject(o, ops[o], error)

\* A guard that throws inside the try block: the catch runs handleError.
RejectedInsideTry(op, error) ==
    /\ state' = ErrorState(error)
    /\ Emit(HandleErrorEvents(0, error))
    /\ Mark([Step(op, 0, "rejected") EXCEPT !.error = error])
    /\ UNCHANGED <<currentScanner, frontScanResult, backScanResult, ops,
                   nextId, probes, resets>>

\* The catch block of call o for an error the call's own code threw after
\* the await it stood at: `at` names the throw.
HandleThrown(o, at, error) ==
    /\ state' = ErrorState(error)
    /\ Emit(HandleErrorEvents(o, error))
    /\ Reject(o, [ops[o] EXCEPT !.pc = at], error)

\* A call rejected by its guard: the throw precedes the try block.
Rejected(op, error) ==
    /\ Emit(<<>>)
    /\ Mark([Step(op, 0, "rejected") EXCEPT !.error = error])
    /\ UNCHANGED <<state, currentScanner, frontScanResult, backScanResult, ops,
                   nextId, probes, resets>>

\* A startFrontScan that leaves the state alone until its scan is done.
StillIdle(scanId) == [status |-> "idle", scanId |-> scanId]

\* The state startFrontScan enters.
ScanningFronts(scanId) == [status |-> "scanning_fronts", scanId |-> scanId]

\* The state startBackScan enters.
ScanningBacks(scanId) ==
    [status |-> "scanning_backs", frontScanId |-> frontScanResult.scanId,
     backScanId |-> scanId]

\* What performScan emits before its first await: esclPerformScan reports
\* (initiating, 0) and awaits createScanJob.
PerformScanBegins(scanId) ==
    <<ScanProgress(scanId, overallProgress("initiating", 0))>>

\* The call's locals when its synchronous prefix has run ensureScanner(): with
\* a cached scanner performScan starts (the await of the resolved promise is
\* not a point where the model interleaves), otherwise a discovery is awaited.
NewScanOp(kind, s) ==
    [NoOp EXCEPT !.kind = kind, !.outcome = "pending", !.trail = <<s>>,
                 !.scanner = currentScanner,
                 !.pc = IF currentScanner = "null" THEN "discover" ELSE "createJob",
                 !.frontAtCall = frontScanResult, !.backAtCall = backScanResult]

\* The events of the synchronous prefix of a scan.
ScanStartEvents(scanId, s, side) ==
    <<StateChanged(s), ScanStarted(scanId, side)>> \o
    (IF currentScanner = "null" THEN <<>> ELSE PerformScanBegins(scanId))

\* startFrontScan up to its first await.
StartFrontScan ==
    /\ CallsLeft
    /\ CanStartFrontScan
    /\ LET scanId == nextId
           s == ScanningFronts(scanId)
       IN  /\ state' = s
           /\ ops' = [ops EXCEPT ![scanId] = NewScanOp("front", s)]
           /\ Emit(ScanStartEvents(scanId, s, "front"))
           /\ Mark(Step("startFrontScan", scanId, "accepted"))
    /\ nextId' = nextId + 1
    /\ UNCHANGED <<currentScanner, frontScanResult, backScanResult, probes, resets>>

StartFrontScanRejected ==
    /\ ~CanStartFrontScan
    /\ Rejected("startFrontScan",
                PlainError(<<"Cannot start front scan from state", state.status>>))

\* startBackScan up to its first await.
StartBackScan ==
    /\ CallsLeft
    /\ CanStartBackScan
    /\ frontScanResult # Null
    /\ LET scanId == nextId
           s == ScanningBacks(scanId)
       IN  /\ state' = s
           /\ ops' = [ops EXCEPT ![scanId] = NewScanOp("back", s)]
           /\ Emit(ScanStartEvents(scanId, s, "back"))
           /\ Mark(Step("startBackScan", scanId, "accepted"))
    /\ nextId' = nextId + 1
    /\ UNCHANGED <<currentScanner, frontScanResult, backScanResult, probes, resets>>

StartBackScanRejected ==
    /\ ~(CanStartBackScan /\ frontScanResult # Null)
    /\ Rejected("startBackScan",
                IF ~CanStartBackScan
                THEN PlainError(<<"Cannot start back scan from state", state.status,
                                  "Must complete front scan first">>)
                ELSE PlainError(<<"No front scan result available">>))

\* ensureScanner after discoverScanners(this.scanTimeout) returned: no
\* scanner is a ScannerError, otherwise scanners[0] is cached and performScan
\* starts with it.
DiscoverReturns(o) ==
    /\ ops[o].pc = "discover"
    /\ \/ \E found \in Discoveries :
             IF found = <<>>
             THEN /\ HandleError(o, ScannerError(<<"No scanner found on network">>))
                  /\ UNCHANGED currentScanner
             ELSE /\ currentScanner' = found[1]
                  /\ ops' = [ops EXCEPT ![o].pc = "createJob", ![o].scanner = found[1]]
                  /\ Mark(Step(MethodOf(o), o, "pending"))
                  /\ Emit(PerformScanBegins(o))
                  /\ UNCHANGED state
       \/ /\ HandleError(o, PlainError(<<"mDNS failure">>))
          /\ UNCHANGED currentScanner
    /\ UNCHANGED <<frontScanResult, backScanResult, nextId, probes, resets>>

\* A continuation of esclPerformScan: either the awaited call succeeded, the
\* progress events are emitted and the call waits at `to`, or it failed with
\* a ScannerError.
ScannerPhase(o, to, events, failure) ==
    /\ \/ /\ Continue(o, to)
          /\ Emit(events)
          /\ UNCHANGED state
       \/ HandleError(o, ScannerError(failure))
    /\ UNCHANGED <<currentScanner, frontScanResult, backScanResult, nextId, probes,
                   resets>>

CreateScanJobReturns(o) ==
    /\ ops[o].pc = "createJob"
    /\ ScannerPhase(o, "waitReady",
                    <<ScanProgress(o, overallProgress("initiating", 100)),
                      ScanProgress(o, overallProgress("scanning", 0))>>,
                    <<"Failed to create scan job">>)

\* A waitForScanReady that polls on without ever timing out.
WaitForScanReadyPollsOn(o) ==
    /\ ops[o].pc = "waitReady"
    /\ UNCHANGED vars

WaitForScanReadyReturns(o) ==
    /\ ops[o].pc = "waitReady"
    /\ ScannerPhase(o, "download",
                    <<ScanProgress(o, overallProgress("scanning", 100)),
                      ScanProgress(o, overallProgress("downloading", 0))>>,
                    <<"Scan timed out waiting for scanner">>)

DownloadDocumentReturns(o) ==
    /\ ops[o].pc = "download"
    /\ ScannerPhase(o, "saveRaw",
                    <<ScanProgress(o, overallProgress("downloading", 100))>>,
                    <<"Failed to download scan">>)

\* A DetectedPhoto: its position and its image bytes (which scan, which
\* region, whether enhanced).
Photo(scanId, region, position, enhanced) ==
    [position |-> position,
     image |-> [scan |-> scanId, region |-> region, enhanced |-> enhanced]]

\* The DetectionResult.photos for the positions the detector reported.
DetectedPhotos(scanId, positions) ==
    [i \in 1..Len(positions) |-> Photo(scanId, i, positions[i], FALSE)]

Side(o) == IF ops[o].kind = "front" THEN "front" ELSE "back"

\* The path saveRawScan returns.
RawImagePath(scanId, side) == <<"raw", scanId, side, "jpg">>

\* The state a scan enters after saveRawScan: processing_fronts, or
\* processing_backs anchored at the retained front result.
ProcessingState(o) ==
    IF ops[o].kind = "front"
    THEN [status |-> "processing_fronts", scanId |-> o, progress |-> 0]
    ELSE [status |-> "processing_backs", frontScanId |-> frontScanResult.scanId,
          backScanId |-> o, progress |-> 0]

\* After saveRawScan (mkdir, writeFile): updateState(processing), progress 30,
\* and the call awaits detectPhotos.  A filesystem failure is a plain Error;
\* startBackScan reads this.frontScanResult.scanId, a TypeError when null.
SaveRawScanReturns(o) ==
    /\ ops[o].pc = "saveRaw"
    /\ \/ IF ops[o].kind = "back" /\ frontScanResult = Null
          THEN HandleError(o, TypeError)
          ELSE /\ state' = ProcessingState(o)
               /\ ops' = [ops EXCEPT ![o].pc = "detect",
                                     ![o].rawImagePath = RawImagePath(o, Side(o)),
                                     ![o].trail = Append(@, ProcessingState(o))]
               /\ Mark(Step(MethodOf(o), o, "pending"))
               /\ Emit(<<StateChanged(ProcessingState(o)), ScanProgress(o, 30)>>)
       \/ HandleError(o, PlainError(<<"EACCES">>))
    /\ UNCHANGED <<currentScanner, frontScanResult, backScanResult, nextId, probes,
                   resets>>

\* The message of the DetectionError for a scan without photos.
NoPhotosDetected(o) ==
    IF ops[o].kind = "front" THEN <<"No photos detected in scan">>
    ELSE <<"No photos detected in back scan">>

\* After detectPhotos: zero photos is a DetectionError, otherwise progress 60
\* and cropAndEnhancePhotos starts on the first region.
DetectPhotosReturns(o) ==
    /\ ops[o].pc = "detect"
    /\ \/ \E positions \in Detections :
             IF positions = <<>>
             THEN HandleThrown(o, "checkPhotos", DetectionError(NoPhotosDetected(o)))
             ELSE /\ ops' = [ops EXCEPT ![o].pc = "enhance",
                                        ![o].detected = DetectedPhotos(o, positions)]
                  /\ Mark(Step(MethodOf(o), o, "pending"))
                  /\ Emit(<<ScanProgress(o, 60)>>)
                  /\ UNCHANGED state
       \/ HandleError(o, PlainError(<<"Photo detection failed", "Invalid image dimensions">>))
    /\ UNCHANGED <<currentScanner, frontScanResult, backScanResult, nextId, probes,
                   resets>>

\* The ScanResult a scan builds.
ScanResult(o, processed) ==
    [scanId |-> o, photosDetected |-> Len(processed),
     rawImagePath |-> ops[o].rawImagePath, detectedPhotos |-> processed]

\* A ready_for_backs that does not carry the photo count.
ReadyForBacksUncounted(front) ==
    [status |-> "ready_for_backs", frontScanId |-> front.scanId,
     photosDetected |-> 0]

\* The state ready_for_backs for the front result `front`.
ReadyForBacks(front) ==
    [status |-> "ready_for_backs", frontScanId |-> front.scanId,
     photosDetected |-> front.photosDetected]

\* Call o resolves with ret; op is the call's record at that point.
Resolve(o, op, ret) ==
    /\ ops' = [ops EXCEPT ![o] = [DoneOp(op, "resolved") EXCEPT !.consumed = op.consumed]]
    /\ Mark([Step(MethodOf(o), o, "resolved") EXCEPT !.ret = ret, !.call = op])

\* A tail of startFrontScan that returns the result without retaining it.
FinishFrontScanUnretained(o, processed) ==
    LET scanResult == ScanResult(o, processed)
        s == ReadyForBacks(scanResult)
    IN  /\ state' = s
        /\ Emit(<<ScanProgress(o, 100), StateChanged(s), ScanComplete(o, Len(processed))>>)
        /\ Resolve(o, [ops[o] EXCEPT !.processed = processed, !.trail = Append(@, s)],
                   scanResult)
        /\ UNCHANGED <<frontScanResult, backScanResult>>

\* The tail of startFrontScan: progress 100, retain the result,
\* updateState(ready_for_backs), scan:complete, return.
FinishFrontScan(o, processed) ==
    LET scanResult == ScanResult(o, processed)
        s == ReadyForBacks(scanResult)
    IN  /\ frontScanResult' = scanResult
        /\ state' = s
        /\ Emit(<<ScanProgress(o, 100), StateChanged(s), ScanComplete(o, Len(processed))>>)
        /\ Resolve(o, [ops[o] EXCEPT !.processed = processed, !.trail = Append(@, s)],
                   scanResult)
        /\ UNCHANGED backScanResult

\* The tail of startBackScan: progress 100, retain the result, scan:complete,
\* then updateState(ready_for_backs) from this.frontScanResult (a TypeError
\* when it is null by then), return.
FinishBackScan(o, processed) ==
    LET scanResult == ScanResult(o, processed)
        pre == <<ScanProgress(o, 100), ScanComplete(o, Len(processed))>>
        op == [ops[o] EXCEPT !.processed = processed]
    IN  /\ backScanResult' = scanResult
        /\ IF frontScanResult = Null
           THEN /\ state' = ErrorState(TypeError)
                /\ Emit(pre \o HandleErrorEvents(o, TypeError))
                /\ Reject(o, op, TypeError)
           ELSE /\ state' = ReadyForBacks(frontScanResult)
                /\ Emit(Append(pre, StateChanged(ReadyForBacks(frontScanResult))))
                /\ Resolve(o, [op EXCEPT !.trail = Append(@, ReadyForBacks(frontScanResult))],
                           scanResult)
        /\ UNCHANGED frontScanResult

\* cropAndEnhancePhotos: the regions are cropped and enhanced one after the
\* other; a failure of either is rethrown as a ProcessingError.
EnhancePhotoReturns(o) ==
    /\ ops[o].pc = "enhance"
    /\ LET photo == ops[o].detected[Len(ops[o].processed) + 1]
           processed == Append(ops[o].processed,
                               [photo EXCEPT !.image.enhanced = TRUE])
       IN  \/ IF Len(processed) < Len(ops[o].detected)
              THEN /\ ops' = [ops EXCEPT ![o].processed = processed]
                   /\ Mark(Step(MethodOf(o), o, "pending"))
                   /\ Emit(<<>>)
                   /\ UNCHANGED <<state, frontScanResult, backScanResult>>
              ELSE IF ops[o].kind = "front"
                   THEN FinishFrontScan(o, processed)
                   ELSE FinishBackScan(o, processed)
           \/ /\ HandleError(o, ProcessingError(<<"Failed to enhance photo at",
                                                  photo.position>>))
              /\ UNCHANGED <<frontScanResult, backScanResult>>
    /\ UNCHANGED <<currentScanner, nextId, probes, resets>>

\* The last element of backs at position p (Map.set overwrites), or null.
BackAt(backs, p) ==
    LET at == {i \in 1..Len(backs) : backs[i].position = p}
    IN  IF at = {} THEN Null
        ELSE LET last == CHOOSE i \in at : \A j \in at : j <= i
             IN  [image |-> backs[last].image, position |-> backs[last].position]

\* A pairing that pairs each front with the back that has its index.
PairByIndex(fronts, backs) ==
    [i \in 1..Len(backs) |->
        [front |-> [image |-> fronts[i].image, position |-> fronts[i].position],
         position |-> fronts[i].position,
         back |-> [image |-> backs[i].image, position |-> backs[i].position]]]

\* The orchestrator's private pairPhotos: one pair per front, in input order.
ScanOrchestrator_pairPhotos(fronts, backs) ==
    [i \in 1..Len(fronts) |->
        [front |-> [image |-> fronts[i].image, position |-> fronts[i].position],
         position |-> fronts[i].position,
         back |-> BackAt(backs, fronts[i].position)]]

\* POSITION_ORDER of the pairing engine.
POSITION_ORDER == <<"top-left", "top-right", "bottom-left", "bottom-right">>

\* The indices of the photos at position p.
IndicesAt(photos, p) == {i \in 1..Len(photos) : photos[i].position = p}

\* The last photo at position p.
LastAt(photos, p) ==
    photos[CHOOSE i \in IndicesAt(photos, p) : \A j \in IndicesAt(photos, p) : j <= i]

\* frontsByPosition.get(p)[0]: the first photo at position p.
FirstAt(photos, p) ==
    photos[CHOOSE i \in IndicesAt(photos, p) : \A j \in IndicesAt(photos, p) : i <= j]

\* The keys of a position map in insertion order: the positions of the
\* photos, each at its first occurrence.
Keys(photos) ==
    LET first == {i \in 1..Len(photos) :
                     \A j \in 1..(i - 1) : photos[j].position # photos[i].position}
        IsFirst(i) == i \in first
        idx == SelectSeq([i \in 1..Len(photos) |-> i], IsFirst)
    IN  [k \in 1..Len(idx) |-> photos[idx[k]].position]

\* Duplicate warnings for the fronts alone.
DuplicateWarningsOfFronts(side, photos) ==
    LET HasDuplicate(p) == side = "front" /\ Cardinality(IndicesAt(photos, p)) > 1
        dup == SelectSeq(Keys(photos), HasDuplicate)
    IN  [k \in 1..Len(dup) |->
            <<"Duplicate", side, "photos found at position", dup[k],
              Cardinality(IndicesAt(photos, dup[k])), "Using first occurrence">>]

\* The duplicate warnings of one side, in the order of the map's keys.
DuplicateWarnings(side, photos) ==
    LET HasDuplicate(p) == Cardinality(IndicesAt(photos, p)) > 1
        dup == SelectSeq(Keys(photos), HasDuplicate)
    IN  [k \in 1..Len(dup) |->
            <<"Duplicate", side, "photos found at position", dup[k],
              Cardinality(IndicesAt(photos, dup[k])), "Using first occurrence">>]

\* A pairing with one pair per front, in the order of the fronts.
EnginePairsInInputOrder(fronts, backs) ==
    [k \in 1..Len(fronts) |->
        [front |-> fronts[k],
         position |-> fronts[k].position,
         back |-> IF IndicesAt(backs, fronts[k].position) = {} THEN Null
                  ELSE FirstAt(backs, fronts[k].position)]]

\* A pairing that pairs the first front of a position with the back that
\* has the front's index.
EnginePairsByIndex(fronts, backs) ==
    LET HasFront(p) == IndicesAt(fronts, p) # {}
        positions == SelectSeq(POSITION_ORDER, HasFront)
        First(p) == CHOOSE i \in IndicesAt(fronts, p) :
                        \A j \in IndicesAt(fronts, p) : i <= j
    IN  [k \in 1..Len(positions) |->
            [front |-> fronts[First(positions[k])],
             position |-> positions[k],
             back |-> IF First(positions[k]) > Len(backs) THEN Null
                      ELSE backs[First(positions[k])]]]

\* The pairs of the pairing engine: one per position that has a front, in
\* POSITION_ORDER, of the first front and the first back (if any) there.
EnginePairs(fronts, backs) ==
    LET HasFront(p) == IndicesAt(fronts, p) # {}
        positions == SelectSeq(POSITION_ORDER, HasFront)
    IN  [k \in 1..Len(positions) |->
            [front |-> FirstAt(fronts, positions[k]),
             position |-> positions[k],
             back |-> IF IndicesAt(backs, positions[k]) = {} THEN Null
                      ELSE FirstAt(backs, positions[k])]]

\* A count-mismatch warning that compares the occupied positions.
PositionCountMismatchWarnings(fronts, backs) ==
    IF Len(Keys(fronts)) # Len(Keys(backs))
    THEN <<<<"Photo count mismatch", Len(fronts), Len(backs)>>>>
    ELSE <<>>

\* The warning for lists of different lengths.
CountMismatchWarnings(fronts, backs) ==
    IF Len(fronts) # Len(backs)
    THEN <<<<"Photo count mismatch", Len(fronts), Len(backs)>>>>
    ELSE <<>>

\* One warning for each position that holds a back and no front.
ExtraBackWarningsEach(fronts, backs) ==
    LET HasNoFront(p) == IndicesAt(fronts, p) = {}
        extra == SelectSeq(Keys(backs), HasNoFront)
    IN  [k \in 1..Len(extra) |->
            <<"Extra back photos without matching fronts at positions", <<extra[k]>>>>]

\* The warning for the positions that hold a back and no front, in the
\* order of the backs' map.
ExtraBackWarnings(fronts, backs) ==
    LET HasNoFront(p) == IndicesAt(fronts, p) = {}
        extra == SelectSeq(Keys(backs), HasNoFront)
    IN  IF extra # <<>>
        THEN <<<<"Extra back photos without matching fronts at positions", extra>>>>
        ELSE <<>>

\* A pairPhotos that returns no pairs for no fronts.
pairPhotosOfAnything(fronts, backs) ==
    [error |-> Null,
     pairs |-> EnginePairs(fronts, backs),
     warnings |-> DuplicateWarnings("front", fronts) \o
                  DuplicateWarnings("back", backs) \o
                  CountMismatchWarnings(fronts, backs) \o
                  ExtraBackWarnings(fronts, backs)]

\* The pairing engine's pairPhotos(fronts, backs): an Error for no fronts;
\* otherwise the pairs and the warnings for duplicates, a count mismatch and
\* backs without a front.
pairPhotos(fronts, backs) ==
    IF fronts = <<>>
    THEN [error |-> PlainError(<<"Cannot pair photos: fronts array must not be empty">>),
          pairs |-> <<>>, warnings |-> <<>>]
    ELSE [error |-> Null,
          pairs |-> EnginePairs(fronts, backs),
          warnings |-> DuplicateWarnings("front", fronts) \o
                       DuplicateWarnings("back", backs) \o
                       CountMismatchWarnings(fronts, backs) \o
                       ExtraBackWarnings(fronts, backs)]

RECURSIVE Digits(_)
\* String(n) as its decimal digits.
Digits(n) == IF n < 10 THEN <<n>> ELSE Append(Digits(n \div 10), n % 10)

\* String(n).padStart(3, '0').
PadStart3(n) ==
    LET d == Digits(n)
    IN  IF Len(d) >= 3 THEN d ELSE [i \in 1..(3 - Len(d)) |-> 0] \o d

\* A savePair that numbers the files from 000.
PairFileFromZero(batchId, index, pair, side) ==
    [dir |-> batchId,
     name |-> <<"photo", PadStart3(index), pair.position, side, "jpg">>,
     image |-> IF side = "front" THEN pair.front.image ELSE pair.back.image]

\* savePair's file for pair number index (0-based) in batch directory batchId.
PairFile(batchId, index, pair, side) ==
    [dir |-> batchId,
     name |-> <<"photo", PadStart3(index + 1), pair.position, side, "jpg">>,
     image |-> IF side = "front" THEN pair.front.image ELSE pair.back.image]

\* The state completeBatch enters.
Saving(batchId) == [status |-> "saving", batchId |-> batchId]

\* completeBatch up to its first await: updateState(saving), pair, mkdir.
CompleteBatch ==
    /\ CallsLeft
    /\ CanCompleteBatch
    /\ LET batchId == nextId
           s == Saving(batchId)
           pairs == ScanOrchestrator_pairPhotos(
                        frontScanResult.detectedPhotos,
                        IF backScanResult = Null THEN <<>>
                        ELSE backScanResult.detectedPhotos)
       IN  /\ state' = s
           /\ ops' = [ops EXCEPT ![batchId] =
                         [NoOp EXCEPT !.kind = "batch", !.pc = "mkdir",
                                      !.outcome = "pending", !.pairs = pairs,
                                      !.trail = <<s>>,
                                      !.frontAtCall = frontScanResult,
                                      !.backAtCall = backScanResult]]
           /\ Emit(<<StateChanged(s)>>)
           /\ Mark(Step("completeBatch", batchId, "accepted"))
    /\ nextId' = nextId + 1
    /\ UNCHANGED <<currentScanner, frontScanResult, backScanResult, probes, resets>>

CompleteBatchRejected ==
    /\ ~CanCompleteBatch
    /\ Rejected("completeBatch",
                PlainError(<<"No front scan result available to complete batch">>))

\* The BatchResult.
BatchResult(batchId, savedCount) ==
    [batchId |-> batchId, pairsSaved |-> savedCount,
     totalPhotos |-> frontScanResult.photosDetected +
                     (IF backScanResult = Null THEN 0 ELSE backScanResult.photosDetected),
     outputDirectory |-> batchId]

\* The scans whose results a reset() discards.
Retained ==
    (IF frontScanResult = Null THEN {} ELSE {frontScanResult.scanId}) \cup
    (IF backScanResult = Null THEN {} ELSE {backScanResult.scanId})

\* The scans whose photos the pairs hold.
ScansOf(pairs) ==
    {pairs[i].front.image.scan : i \in 1..Len(pairs)} \cup
    {pairs[i].back.image.scan : i \in {j \in 1..Len(pairs) : pairs[j].back # Null}}

\* A tail of completeBatch whose reset discards the front result alone.
FinishBatchKeepingBack(o, op) ==
    LET result == BatchResult(o, op.savedCount)
        complete == [status |-> "complete", batchId |-> o,
                     photosSaved |-> op.savedCount]
    IN  /\ frontScanResult # Null
        /\ state' = IdleState
        /\ frontScanResult' = Null
        /\ UNCHANGED backScanResult
        /\ Emit(<<StateChanged(complete), BatchComplete(result),
                  StateChanged(IdleState)>>)
        /\ Resolve(o, [op EXCEPT !.trail = @ \o <<complete, IdleState>>,
                                 !.consumed = Retained \cup ScansOf(op.pairs)],
                   result)

\* A tail of completeBatch that resets before it announces the batch.
FinishBatchResettingFirst(o, op) ==
    LET result == BatchResult(o, op.savedCount)
        complete == [status |-> "complete", batchId |-> o,
                     photosSaved |-> op.savedCount]
    IN  /\ frontScanResult # Null
        /\ state' = IdleState
        /\ frontScanResult' = Null
        /\ backScanResult' = Null
        /\ Emit(<<StateChanged(complete), StateChanged(IdleState),
                  BatchComplete(result)>>)
        /\ Resolve(o, [op EXCEPT !.trail = @ \o <<complete, IdleState>>,
                                 !.consumed = Retained \cup ScansOf(op.pairs)],
                   result)

\* The tail of completeBatch once every pair is saved: the BatchResult reads
\* this.frontScanResult (a TypeError when null), updateState(complete),
\* batch:complete, this.reset(), return.
FinishBatch(o, op) ==
    LET savedCount == op.savedCount
    IN  IF frontScanResult = Null
        THEN /\ state' = ErrorState(TypeError)
             /\ Emit(HandleErrorEvents(o, TypeError))
             /\ Reject(o, op, TypeError)
             /\ UNCHANGED <<frontScanResult, backScanResult>>
        ELSE LET result == BatchResult(o, savedCount)
                 complete == [status |-> "complete", batchId |-> o,
                              photosSaved |-> savedCount]
             IN  /\ state' = IdleState
                 /\ frontScanResult' = Null
                 /\ backScanResult' = Null
                 /\ Emit(<<StateChanged(complete), BatchComplete(result),
                           StateChanged(IdleState)>>)
                 /\ Resolve(o, [op EXCEPT !.trail = @ \o <<complete, IdleState>>,
                                          !.consumed = Retained \cup ScansOf(op.pairs)],
                            result)

\* The for loop of completeBatch after savedCount pairs are saved: the next
\* savePair starts with the front file, or the loop is over.
NextPair(o, op) ==
    IF op.savedCount < Len(op.pairs)
    THEN /\ ops' = [ops EXCEPT ![o] = [op EXCEPT !.pc = "writeFront"]]
         /\ Mark(Step(MethodOf(o), o, "pending"))
         /\ Emit(<<>>)
         /\ UNCHANGED <<state, frontScanResult, backScanResult>>
    ELSE FinishBatch(o, op)

\* After mkdir(batchDir): a failure is a plain Error.
MkdirReturns(o) ==
    /\ ops[o].pc = "mkdir"
    /\ \/ NextPair(o, ops[o])
       \/ /\ HandleError(o, PlainError(<<"EACCES">>))
          /\ UNCHANGED <<frontScanResult, backScanResult>>
    /\ UNCHANGED <<currentScanner, nextId, probes, resets>>

\* A savePair whose failure removes the files the batch has written.
SavePairFailsRollingBack(o) ==
    LET error == StorageError(<<"Failed to save photo pair", "EACCES">>)
    IN  /\ state' = ErrorState(error)
        /\ Emit(HandleErrorEvents(o, error))
        /\ Reject(o, [ops[o] EXCEPT !.written = <<>>], error)
        /\ UNCHANGED <<frontScanResult, backScanResult>>

\* savePair: any failure inside is rethrown as a StorageError.
SavePairFails(o) ==
    /\ HandleError(o, StorageError(<<"Failed to save photo pair", "EACCES">>))
    /\ UNCHANGED <<frontScanResult, backScanResult>>

\* The call's record once savePair has written file f.
Written(op, f) == [op EXCEPT !.written = Append(@, f)]

\* The call's record once savePair has returned: savedCount++.
PairSaved(op) == [op EXCEPT !.savedCount = @ + 1]

\* savePair after writeFile(frontPath): the back file follows if the pair has
\* a back, otherwise the pair is saved.
WriteFrontReturns(o) ==
    /\ ops[o].pc = "writeFront"
    /\ LET pair == ops[o].pairs[ops[o].savedCount + 1]
           written == Written(ops[o], PairFile(o, ops[o].savedCount, pair, "front"))
       IN  \/ IF pair.back # Null
              THEN /\ ops' = [ops EXCEPT ![o] = [written EXCEPT !.pc = "writeBack"]]
                   /\ Mark(Step(MethodOf(o), o, "pending"))
                   /\ Emit(<<>>)
                   /\ UNCHANGED <<state, frontScanResult, backScanResult>>
              ELSE NextPair(o, PairSaved(written))
           \/ SavePairFails(o)
    /\ UNCHANGED <<currentScanner, nextId, probes, resets>>

\* savePair after writeFile(backPath): the pair is saved.
WriteBackReturns(o) ==
    /\ ops[o].pc = "writeBack"
    /\ LET pair == ops[o].pairs[ops[o].savedCount + 1]
           written == Written(ops[o], PairFile(o, ops[o].savedCount, pair, "back"))
       IN  \/ NextPair(o, PairSaved(written))
           \/ SavePairFails(o)
    /\ UNCHANGED <<currentScanner, nextId, probes, resets>>

\* isScannerReady up to its await of discoverScanners(5000).
IsScannerReady ==
    /\ probes < MaxProbes
    /\ probes' = probes + 1
    /\ Emit(<<>>)
    /\ Mark(Step("isScannerReady", 0, "pending"))
    /\ UNCHANGED <<state, currentScanner, frontScanResult, backScanResult, ops,
                   nextId, resets>>

\* An isScannerReady that reports the discovery without caching its scanner.
IsScannerReadyReturnsUncached ==
    /\ probes > 0
    /\ probes' = probes - 1
    /\ \E found \in Discoveries :
          Mark([Step("isScannerReady", 0, "resolved") EXCEPT !.ret = (found # <<>>)])
    /\ Emit(<<>>)
    /\ UNCHANGED <<state, currentScanner, frontScanResult, backScanResult, ops,
                   nextId, resets>>

\* isScannerReady after the discovery: caches scanners[0] ?? null and returns
\* whether it is non-null; a failed discovery returns false.
IsScannerReadyReturns ==
    /\ probes > 0
    /\ probes' = probes - 1
    /\ \/ \E found \in Discoveries :
             /\ currentScanner' = IF found = <<>> THEN "null" ELSE found[1]
             /\ Mark([Step("isScannerReady", 0, "resolved") EXCEPT
                         !.ret = (found # <<>>)])
       \/ /\ UNCHANGED currentScanner
          /\ Mark([Step("isScannerReady", 0, "resolved") EXCEPT !.ret = FALSE])
    /\ Emit(<<>>)
    /\ UNCHANGED <<state, frontScanResult, backScanResult, ops, nextId, resets>>

----------------------------------------------------------------------------
\* The calls a client makes and the continuations the event loop runs.
Workflow ==
    \/ Reset
    \/ StartFrontScan
    \/ StartBackScan
    \/ CompleteBatch
    \/ \E o \in CallIds :
          \/ DiscoverReturns(o)
          \/ CreateScanJobReturns(o)
          \/ WaitForScanReadyReturns(o)
          \/ DownloadDocumentReturns(o)
          \/ SaveRawScanReturns(o)
          \/ DetectPhotosReturns(o)
          \/ EnhancePhotoReturns(o)
          \/ MkdirReturns(o)
          \/ WriteFrontReturns(o)
          \/ WriteBackReturns(o)

\* The calls a guard turns down.
Conflicts ==
    \/ StartFrontScanRejected
    \/ StartBackScanRejected
    \/ CompleteBatchRejected

\* The scanner probe.
Probe ==
    \/ IsScannerReady
    \/ IsScannerReadyReturns

Next == Workflow \/ Conflicts \/ Probe

Spec == Init /\ [][Next]_vars

\* The workflow with every call a client can make, the probe aside.
SpecCalls == Init /\ [][Workflow \/ Conflicts]_vars

\* The workflow of the accepted calls alone: a call a guard turns down
\* changes nothing but the record of the last step.
SpecFlow == Init /\ [][Workflow]_vars

\* The scans alone: the two scan calls and their continuations.
Scans ==
    \/ StartFrontScan
    \/ StartBackScan
    \/ \E o \in CallIds :
          \/ DiscoverReturns(o)
          \/ CreateScanJobReturns(o)
          \/ WaitForScanReadyReturns(o)
          \/ DownloadDocumentReturns(o)
          \/ SaveRawScanReturns(o)
          \/ DetectPhotosReturns(o)
          \/ EnhancePhotoReturns(o)

\* The scanner probe next to the scans, which share the cached scanner with
\* it; reset() and completeBatch neither read nor write the cache.
SpecProbe == Init /\ [][Scans \/ Probe]_vars

\* The collaborator call that call o awaits returns or fails, and the call
\* runs on to its next await or to its end.
Returns(o) ==
    \/ DiscoverReturns(o)
    \/ CreateScanJobReturns(o)
    \/ WaitForScanReadyReturns(o)
    \/ DownloadDocumentReturns(o)
    \/ SaveRawScanReturns(o)
    \/ DetectPhotosReturns(o)
    \/ EnhancePhotoReturns(o)
    \/ MkdirReturns(o)
    \/ WriteFrontReturns(o)
    \/ WriteBackReturns(o)

\* The workflow of the accepted calls in which no awaited collaborator call
\* stays pending forever: the event loop runs every continuation that is
\* ready.  The client's own calls are under no obligation.
SpecLive == SpecFlow /\ \A o \in CallIds : WF_vars(Returns(o))

\* A step of the client: the server stands still and emits nothing.
ClientStep(op) ==
    /\ emitted' = <<>>
    /\ Mark(Step(op, 0, "ok"))
    /\ UNCHANGED <<state, currentScanner, frontScanResult, backScanResult, ops,
                   nextId, probes, resets>>

\* connect() of the store: unless a socket is connected, io() opens one and
\* registers the handlers.
connect ==
    /\ store.socket # "connected"
    /\ store' = [store EXCEPT !.socket = "connecting"]
    /\ ClientStep("connect")

\* The socket of the store is connected.
SocketConnects ==
    /\ store.socket = "connecting"
    /\ store' = [store EXCEPT !.socket = "connected"]
    /\ ClientStep("socket.on('connect')")

\* The state startScan sets for the scan type.
StartScanState(s, type) ==
    IF type = "front"
    THEN [status |-> "scanning_fronts", scanId |-> "pending"]
    ELSE IF s.state.status = "ready_for_backs"
    THEN [status |-> "scanning_backs", frontScanId |-> s.state.frontScanId,
          backScanId |-> "pending"]
    ELSE s.state

\* startScan(type) of the store: without a connected socket an error state,
\* else socket.emit('scan:start') and the local state. The request reaches
\* socket.on('scan:start') of the server, which calls startFrontScan() or
\* startBackScan(), as the requests of every other client do.
startScan ==
    /\ \E type \in {"front", "back"} :
          store' = [store EXCEPT !.state =
                       IF store.socket # "connected"
                       THEN [status |-> "error",
                             message |-> <<"Not connected to server">>,
                             recoverable |-> TRUE]
                       ELSE StartScanState(store, type)]
    /\ ClientStep("startScan")

\* The store's own steps.
Client ==
    \/ connect
    \/ SocketConnects
    \/ startScan

\* The workflow with a client store that listens to the server.
SpecClient == Init /\ [][Workflow \/ Client]_vars

\* The scans with a client store, in which no awaited collaborator call
\* stays pending forever; every broadcast is delivered, in order, in the step
\* that emits it.
SpecClientLive ==
    /\ Init
    /\ [][Scans \/ Client]_vars
    /\ \A o \in CallIds : WF_vars(Returns(o))

\* The lists of up to MaxSide positions, in any order, with repetitions.
PositionLists == UNION {[1..n -> Positions] : n \in 0..MaxSide}

\* The lists of up to MaxSide cropped photos of one scan, at any positions.
PhotoLists(scanId) ==
    {[i \in DOMAIN at |-> Photo(scanId, i, at[i], TRUE)] : at \in PositionLists}

\* A caller is about to give the pairing engine the front photos of one scan
\* and the back photos of another.
InitPair ==
    /\ state = [status |-> "idle"]
    /\ currentScanner = "null"
    /\ frontScanResult = Null
    /\ backScanResult = Null
    /\ ops = [i \in CallIds |-> NoOp]
    /\ nextId = 1
    /\ probes = 0
    /\ resets = 0
    /\ emitted = <<>>
    /\ store = NewStore
    /\ \E fronts \in PhotoLists(1), backs \in PhotoLists(2) :
          lastStep = [Step("pairPhotos", 0, "called") EXCEPT
                         !.call = [fronts |-> fronts, backs |-> backs,
                                   calls |-> 0]]

\* A pairPhotos that takes the photos it pairs out of the caller's lists.
PairPhotosConsuming ==
    /\ lastStep.op = "pairPhotos"
    /\ lastStep.call.calls < MaxPairings
    /\ LET result == pairPhotos(lastStep.call.fronts, lastStep.call.backs)
           IsLeft(photo) ==
               \A k \in 1..Len(result.pairs) :
                   photo # result.pairs[k].front /\ photo # result.pairs[k].back
           left == [lastStep.call EXCEPT !.calls = @ + 1,
                                         !.fronts = SelectSeq(@, IsLeft),
                                         !.backs = SelectSeq(@, IsLeft)]
       IN  lastStep' =
               IF result.error # Null
               THEN [lastStep EXCEPT !.outcome = "rejected", !.error = result.error,
                                     !.ret = Null, !.call = left]
               ELSE [lastStep EXCEPT !.outcome = "resolved", !.error = Null,
                                     !.ret = [pairs |-> result.pairs,
                                              warnings |-> result.warnings],
                                     !.call = left]
    /\ UNCHANGED <<state, currentScanner, frontScanResult, backScanResult, ops,
                   nextId, probes, resets, emitted, store>>

\* pairPhotos(fronts, backs) throws or returns its PairingResult; the caller
\* still holds the two lists, which the function only reads, and may call
\* again with them.
PairPhotos ==
    /\ lastStep.op = "pairPhotos"
    /\ lastStep.call.calls < MaxPairings
    /\ LET result == pairPhotos(lastStep.call.fronts, lastStep.call.backs)
       IN  lastStep' =
               IF result.error # Null
               THEN [lastStep EXCEPT !.outcome = "rejected", !.error = result.error,
                                     !.ret = Null, !.call.calls = @ + 1]
               ELSE [lastStep EXCEPT !.outcome = "resolved", !.error = Null,
                                     !.ret = [pairs |-> result.pairs,
                                              warnings |-> result.warnings],
                                     !.call.calls = @ + 1]
    /\ UNCHANGED <<state, currentScanner, frontScanResult, backScanResult, ops,
                   nextId, probes, resets, emitted, store>>

\* The pairing engine alone, on every pair of lists.
SpecPair == InitPair /\ [][PairPhotos]_vars

\* The stages esclPerformScan reports, and the percentages of a stage.
Stages == {"initiating", "scanning", "downloading"}
Percentages == 0..100

\* progressCallback(stage, progress) of the scan scanId: maps the stage's
\* percentage and emits scan:progress.
ProgressCallback ==
    \E scanId \in CallIds, stage \in Stages, progress \in Percentages :
        /\ Emit(<<ScanProgress(scanId, overallProgress(stage, progress))>>)
        /\ Mark([Step("progressCallback", scanId, "pending") EXCEPT
                    !.call = [stage |-> stage, progress |-> progress]])
        /\ UNCHANGED <<state, currentScanner, frontScanResult, backScanResult,
                       ops, nextId, probes, resets>>

\* The progress callback alone, on every stage and percentage.
SpecProgress == Init /\ [][ProgressCallback]_vars

----------------------------------------------------------------------------
\* The eSCL client: performScan of escl-client.ts, with the polling loop of
\* waitForScanReady. Time is counted in seconds.

\* The longest timeoutMs a caller passes, in seconds.
MaxTimeout == 7

\* processingCount >= 5 of waitForScanReady.
ProcessingPolls == 5

\* What a poll of /eSCL/ScannerStatus observes: the <pwg:State> of an ok
\* response (Stopped stands for every state but Processing and Idle, Unknown
\* included), a response that is not ok, or a fetch that threw.
ScannerStates == {"Processing", "Idle", "Stopped"}
Polls == ScannerStates \cup {"NotOk", "Threw"}

\* The seconds one turn of the loop takes: the fetch and the 1000 ms sleep.
PollSeconds == {1, 2}

\* A processingCount that counts consecutive Processing polls only.
processingCountInARow(count, poll) ==
    IF poll = "Processing" THEN count + 1 ELSE 0

\* processingCount after a poll.
processingCount(count, poll) ==
    IF poll = "Processing" THEN count + 1 ELSE count

\* The locals of performScan and of the waitForScanReady it awaits: ready is
\* what waitForScanReady returned ("pending" until it has), progress is the
\* list of the onProgress calls made so far.
EsclCall(timeout) ==
    [pc |-> "start", timeout |-> timeout, now |-> 0, sawProcessing |-> FALSE,
     processingCount |-> 0, seen |-> <<>>, ready |-> "pending", jobUrl |-> "",
     progress |-> <<>>]

\* A caller is about to call performScan with a timeout.
InitEscl ==
    /\ state = [status |-> "idle"]
    /\ currentScanner = "null"
    /\ frontScanResult = Null
    /\ backScanResult = Null
    /\ ops = [i \in CallIds |-> NoOp]
    /\ nextId = 1
    /\ probes = 0
    /\ resets = 0
    /\ emitted = <<>>
    /\ store = NewStore
    /\ \E timeout \in 0..MaxTimeout :
          lastStep = [Step("performScan", 0, "called") EXCEPT
                         !.call = EsclCall(timeout)]

\* The rest of the model stands still while the client runs.
EsclFrame ==
    UNCHANGED <<state, currentScanner, frontScanResult, backScanResult, ops,
                nextId, probes, resets, emitted, store>>

\* performScan throws a ScannerError.
EsclThrows(message) ==
    lastStep' = [lastStep EXCEPT !.outcome = "rejected",
                                 !.error = ScannerError(message),
                                 !.call.pc = "done"]

\* performScan up to its first await: onProgress(initiating, 0),
\* createScanJob.
performScan ==
    /\ lastStep.op = "performScan"
    /\ lastStep.call.pc = "start"
    /\ lastStep' = [lastStep EXCEPT !.outcome = "pending",
                                    !.call.pc = "createJob",
                                    !.call.progress = <<<<"initiating", 0>>>>]
    /\ EsclFrame

\* What createScanJob returns: a job URL from the Location header, or no
\* success (response not ok, no Location header, fetch threw).
JobResults ==
    {[success |-> TRUE, jobUrl |-> "job"],
     [success |-> FALSE, jobUrl |-> ""]}

\* createScanJob has returned: without a job performScan throws, else
\* onProgress(initiating, 100), onProgress(scanning, 0), waitForScanReady.
createScanJob ==
    /\ lastStep.op = "performScan"
    /\ lastStep.call.pc = "createJob"
    /\ \E jobResult \in JobResults :
          IF ~jobResult.success \/ jobResult.jobUrl = ""
          THEN EsclThrows(<<"Failed to create scan job">>)
          ELSE lastStep' = [lastStep EXCEPT
                               !.call.pc = "waitReady",
                               !.call.jobUrl = jobResult.jobUrl,
                               !.call.progress = @ \o <<<<"initiating", 100>>,
                                                        <<"scanning", 0>>>>]
    /\ EsclFrame

\* A performScan that announces the download before the end of the scan.
EsclReadyDownloadFirst(w) ==
    [w EXCEPT !.pc = "download", !.ready = "true",
              !.progress = @ \o <<<<"downloading", 0>>, <<"scanning", 100>>>>]

\* waitForScanReady has returned true: onProgress(scanning, 100),
\* onProgress(downloading, 0), downloadDocument.
EsclReady(w) ==
    [w EXCEPT !.pc = "download", !.ready = "true",
              !.progress = @ \o <<<<"scanning", 100>>, <<"downloading", 0>>>>]

\* One turn of the loop of waitForScanReady, entered before the timeout: the
\* poll, then return true or sleep.
waitForScanReady ==
    /\ lastStep.op = "performScan"
    /\ lastStep.call.pc = "waitReady"
    /\ lastStep.call.now < lastStep.call.timeout
    /\ \E poll \in Polls, seconds \in PollSeconds :
          LET w == [lastStep.call EXCEPT
                       !.seen = Append(@, poll),
                       !.sawProcessing = @ \/ poll = "Processing",
                       !.processingCount = processingCount(@, poll)]
          IN  lastStep' =
                 [lastStep EXCEPT !.call =
                     IF poll = "Processing"
                     THEN IF w.processingCount >= ProcessingPolls
                          THEN EsclReady(w)
                          ELSE [w EXCEPT !.now = @ + seconds]
                     ELSE IF w.sawProcessing /\ poll = "Idle"
                          THEN EsclReady(w)
                          ELSE [w EXCEPT !.now = @ + seconds]]
    /\ EsclFrame

\* The loop of waitForScanReady is left at the timeout: it returns false and
\* performScan throws.
waitForScanReadyTimesOut ==
    /\ lastStep.op = "performScan"
    /\ lastStep.call.pc = "waitReady"
    /\ lastStep.call.now >= lastStep.call.timeout
    /\ lastStep' = [lastStep EXCEPT !.outcome = "rejected",
                       !.error = ScannerError(<<"Scan timed out waiting for scanner">>),
                       !.call.pc = "done", !.call.ready = "false"]
    /\ EsclFrame

\* How curl ends: the document is there, curl failed, or the file is empty.
Downloads == {"document", "curl failed", "empty"}

\* downloadDocument has returned or thrown: its ScannerError passes through
\* performScan, else onProgress(downloading, 100) and the buffer.
downloadDocument ==
    /\ lastStep.op = "performScan"
    /\ lastStep.call.pc = "download"
    /\ \E download \in Downloads :
          CASE download = "curl failed" -> EsclThrows(<<"Failed to download scan">>)
            [] download = "empty" -> EsclThrows(<<"Downloaded scan is empty">>)
            [] OTHER ->
                 lastStep' = [lastStep EXCEPT
                                 !.outcome = "resolved", !.ret = "document",
                                 !.call.pc = "done",
                                 !.call.progress = Append(@, <<"downloading", 100>>)]
    /\ EsclFrame

\* The eSCL client alone, on every timeout and every course of the polls.
Escl ==
    \/ performScan
    \/ createScanJob
    \/ waitForScanReady
    \/ waitForScanReadyTimesOut
    \/ downloadDocument

SpecEscl == InitEscl /\ [][Escl]_vars

----------------------------------------------------------------------------
\* Steps, as the properties below read them off lastStep.

\* The step is a call of the method op that was accepted.
Accepted(op) == lastStep'.op = op /\ lastStep'.outcome = "accepted"

\* The step is a call of the method op that its guard turned down.
TurnedDown(op) ==
    lastStep'.op = op /\ lastStep'.outcome = "rejected" /\ lastStep'.id = 0

\* The step is a call of the method op.
Called(op) == Accepted(op) \/ TurnedDown(op)

\* The last step was a call of the method op that its guard turned down.
WasTurnedDown(op) ==
    lastStep.op = op /\ lastStep.outcome = "rejected" /\ lastStep.id = 0

\* The last step was the one in which a call of the method op resolved.
HasResolved(op) == lastStep.op = op /\ lastStep.outcome = "resolved"

\* The accepted calls that have neither resolved nor rejected.
InFlight == {o \in CallIds : ops[o].outcome = "pending"}

----------------------------------------------------------------------------
\* C1: startFrontScan() called in any state other than idle is rejected with
\* the state-conflict error, and the rejection changes neither the state, nor
\* the retained results, nor the cached scanner (so the state does not become
\* error because of it), and emits no event.
C1_FrontScanConflictChangesNothing ==
    [][(Called("startFrontScan") /\ state.status # "idle") =>
          /\ TurnedDown("startFrontScan")
          /\ lastStep'.error =
                 PlainError(<<"Cannot start front scan from state", state.status>>)
          /\ UNCHANGED <<state, frontScanResult, backScanResult, currentScanner>>
          /\ emitted' = <<>>]_vars

\* A front scan was turned down while a front result waits for its backs.
C1_Witness ==
    /\ WasTurnedDown("startFrontScan")
    /\ state.status = "ready_for_backs"
    /\ frontScanResult # Null
    /\ currentScanner # "null"

\* C2: startBackScan() is accepted only in ready_for_backs, where the front
\* scan whose result is retained has resolved; called in any other state it is
\* rejected, and the rejection changes neither the state nor the retained
\* results and emits no event.
C2_BackScanOnlyWhenReadyForBacks ==
    [][/\ Accepted("startBackScan") =>
             /\ state.status = "ready_for_backs"
             /\ frontScanResult # Null
             /\ ops[frontScanResult.scanId] =
                    DoneOp([kind |-> "front"], "resolved")
       /\ (Called("startBackScan") /\ state.status # "ready_for_backs") =>
             /\ TurnedDown("startBackScan")
             /\ UNCHANGED <<state, frontScanResult, backScanResult>>
             /\ emitted' = <<>>]_vars

\* A back scan was turned down while the front scan was still scanning.
C2_Witness ==
    /\ WasTurnedDown("startBackScan")
    /\ state.status = "scanning_fronts"
    /\ ops[state.scanId].outcome = "pending"

\* C3: completeBatch() called in any state other than ready_for_backs fails
\* with a state conflict and leaves the state unchanged; from error only
\* reset() changes the state.
C3_CompleteBatchOnlyWhenReadyForBacks ==
    [][/\ (Called("completeBatch") /\ state.status # "ready_for_backs") =>
             /\ TurnedDown("completeBatch")
             /\ state' = state
       /\ (state.status = "error" /\ state' # state) => lastStep'.op = "reset"]_vars

\* C4: a startFrontScan() call is accepted only in idle, and the step that
\* accepts it has left idle for scanning_fronts when it ends: a second call,
\* whenever it runs, meets a state its guard turns down.
C4_FrontScanCheckAndTransitionAtomic ==
    [][Accepted("startFrontScan") =>
          /\ state.status = "idle"
          /\ state'.status = "scanning_fronts"
          /\ state'.scanId = lastStep'.id
          /\ ~CanStartFrontScan']_vars

\* The second of two calls was turned down before the first one, still at
\* its first await, ran any further.
C4_Witness ==
    /\ WasTurnedDown("startFrontScan")
    /\ state.status = "scanning_fronts"
    /\ InFlight = {state.scanId}
    /\ ops[state.scanId].pc \in {"discover", "createJob"}
    /\ resets = 0

\* C5: at most one of the accepted startFrontScan, startBackScan and
\* completeBatch calls is in flight at any time.
C5_OneOperationInFlight == Cardinality(InFlight) <= 1

\* The transitions of the state table, reset() and failures aside.
Table ==
    {<<"idle", "scanning_fronts">>,
     <<"scanning_fronts", "processing_fronts">>,
     <<"processing_fronts", "ready_for_backs">>,
     <<"ready_for_backs", "scanning_backs">>,
     <<"ready_for_backs", "saving">>,
     <<"scanning_backs", "processing_backs">>,
     <<"processing_backs", "ready_for_backs">>,
     <<"saving", "complete">>,
     <<"complete", "idle">>}

\* The states in which an accepted operation is at work.
InProgress ==
    {"scanning_fronts", "processing_fronts", "scanning_backs", "processing_backs",
     "saving"}

IsStateChanged(e) == e.type = "state:changed"

\* The states the step goes through: the state before it, then the state of
\* every state:changed event it emits.
StatesOfStep ==
    LET changes == SelectSeq(emitted', IsStateChanged)
    IN  <<state>> \o [i \in 1..Len(changes) |-> changes[i].state]

\* C6: every change of the state is a transition of the state table: one of
\* Table, an in-progress state to error, or any state to idle by reset().
C6_OnlyTableTransitions ==
    [][\A i \in 1..(Len(StatesOfStep) - 1) :
          LET from == StatesOfStep[i].status
              to == StatesOfStep[i + 1].status
          IN  \/ from = to
              \/ <<from, to>> \in Table
              \/ from \in InProgress /\ to = "error"
              \/ to = "idle" /\ lastStep'.op = "reset"]_vars

\* C7: when startFrontScan() resolves, the state is ready_for_backs with the
\* returned scan's id and its number of photos, which is at least 1; the
\* returned result is the retained front result; and the call has set the
\* state to scanning_fronts, then processing_fronts with progress 0, then
\* ready_for_backs.
C7_FrontScanResolvesReadyForBacks ==
    HasResolved("startFrontScan") =>
        LET ret == lastStep.ret
        IN  /\ ret.scanId = lastStep.id
            /\ ret.photosDetected = Len(ret.detectedPhotos)
            /\ ret.photosDetected >= 1
            /\ state = [status |-> "ready_for_backs", frontScanId |-> ret.scanId,
                        photosDetected |-> ret.photosDetected]
            /\ frontScanResult = ret
            /\ lastStep.call.trail =
                   <<[status |-> "scanning_fronts", scanId |-> ret.scanId],
                     [status |-> "processing_fronts", scanId |-> ret.scanId,
                      progress |-> 0],
                     state>>

\* A front scan resolved with two photos.
C7_Witness ==
    /\ HasResolved("startFrontScan")
    /\ lastStep.ret.photosDetected = 2
    /\ state.status = "ready_for_backs"

\* C8: when startBackScan() resolves, the state is ready_for_backs with the id
\* and the photo count of the front result the back scan was started on, the
\* returned result is the retained back result, the retained front result is
\* the one the back scan was started on, and completeBatch() passes its check.
C8_BackScanResolvesOnItsFront ==
    HasResolved("startBackScan") =>
        LET front == lastStep.call.frontAtCall
        IN  /\ state = [status |-> "ready_for_backs", frontScanId |-> front.scanId,
                        photosDetected |-> front.photosDetected]
            /\ backScanResult = lastStep.ret
            /\ frontScanResult = front
            /\ CanCompleteBatch

\* C9: completeBatch() passes its check in ready_for_backs; called with no
\* back result retained, when it resolves it has made one pair per front
\* photo, in order, none with a back, has written one front file per pair and
\* no back file, and has set the state to saving, then complete, then idle.
C9_FrontsOnlyBatch ==
    /\ state.status = "ready_for_backs" => CanCompleteBatch
    /\ (HasResolved("completeBatch") /\ lastStep.call.backAtCall = Null) =>
          LET call == lastStep.call
              fronts == call.frontAtCall.detectedPhotos
              n == Len(fronts)
          IN  /\ Len(call.pairs) = n
              /\ \A i \in 1..n :
                    /\ call.pairs[i].front.image = fronts[i].image
                    /\ call.pairs[i].back = Null
              /\ Len(call.written) = n
              /\ \A i \in 1..n :
                    /\ call.written[i].name[4] = "front"
                    /\ call.written[i].image = fronts[i].image
              /\ lastStep.ret.pairsSaved = n
              /\ call.trail =
                     <<[status |-> "saving", batchId |-> lastStep.id],
                       [status |-> "complete", batchId |-> lastStep.id,
                        photosSaved |-> n],
                       [status |-> "idle"]>>

\* A batch of two fronts and no backs resolved.
C9_Witness ==
    /\ HasResolved("completeBatch")
    /\ lastStep.call.backAtCall = Null
    /\ Len(lastStep.call.pairs) = 2
    /\ Len(lastStep.call.written) = 2

\* The batches that have resolved.
ResolvedBatches ==
    {o \in CallIds : ops[o].kind = "batch" /\ ops[o].outcome = "resolved"}

C11_ResetAlwaysToIdle ==
    [][/\ CallsLeft => ENABLED Reset
       /\ lastStep'.op = "reset" =>
             /\ lastStep'.outcome = "ok"
             /\ lastStep'.error = Null
             /\ state' = [status |-> "idle"]
             /\ frontScanResult' = Null
             /\ backScanResult' = Null
             /\ emitted' = <<StateChanged([status |-> "idle"])>>]_vars

\* reset() ran while a batch, accepted with a front and a back result, was
\* between two file writes.
C11_Witness ==
    /\ lastStep.op = "reset"
    /\ \E o \in InFlight :
          /\ ops[o].pc \in {"writeFront", "writeBack"}
          /\ ops[o].frontAtCall # Null
          /\ ops[o].backAtCall # Null

IsScanError(e) == e.type = "scan:error"

IsScanComplete(e) == e.type = "scan:complete"

\* The last step was the one in which call lastStep.id rejected.
HasRejected == lastStep.outcome = "rejected" /\ lastStep.id > 0

\* C12: when detection returns zero photos in a front or a back scan, the
\* state becomes error with recoverable = true, the step emits exactly one
\* scan:error, carrying the scan's id, and no scan:complete, no result of the
\* scan is retained, and the call rejects.
C12_ZeroPhotosRecoverable ==
    (HasRejected /\ lastStep.call.pc = "checkPhotos") =>
        /\ lastStep.call.kind \in {"front", "back"}
        /\ lastStep.error.name = "DetectionError"
        /\ state.status = "error"
        /\ state.recoverable = TRUE
        /\ SelectSeq(emitted, IsScanError) =
               <<ScanErrorEvent(lastStep.id, lastStep.error)>>
        /\ SelectSeq(emitted, IsScanComplete) = <<>>
        /\ frontScanResult # Null => frontScanResult.scanId # lastStep.id
        /\ backScanResult # Null => backScanResult.scanId # lastStep.id
        /\ ops[lastStep.id].outcome = "rejected"

\* A back scan found no photo while the front result was retained.
C12_Witness ==
    /\ HasRejected
    /\ lastStep.call.pc = "checkPhotos"
    /\ lastStep.call.kind = "back"
    /\ frontScanResult # Null
    /\ state.status = "error"

\* The stage of a call at which the scanner is talked to.
ScannerStages == {"createJob", "waitReady", "download"}

\* C13: the recoverable flag after a failure follows the kind of failure: a
\* failed scanner stage or no scanner found (ScannerError), zero photos
\* (DetectionError) and a failed crop or enhancement (ProcessingError) give
\* recoverable = true; a failed write of a pair in completeBatch
\* (StorageError) gives recoverable = false.
C13_RecoverableByKind ==
    HasRejected =>
        /\ state.status = "error"
        /\ lastStep.call.pc \in ScannerStages =>
               lastStep.error.name = "ScannerError"
        /\ lastStep.error.name \in
               {"ScannerError", "DetectionError", "ProcessingError"} =>
               /\ lastStep.call.kind \in {"front", "back"}
               /\ state.recoverable = TRUE
        /\ lastStep.error.name = "StorageError" =>
               /\ lastStep.call.kind = "batch"
               /\ lastStep.call.pc \in {"writeFront", "writeBack"}
               /\ state.recoverable = FALSE

\* The write of the second pair's back failed.
C13_Witness ==
    /\ HasRejected
    /\ lastStep.error.name = "StorageError"
    /\ lastStep.call.pc = "writeBack"
    /\ lastStep.call.savedCount = 1
    /\ state.status = "error"
    /\ state.recoverable = FALSE

\* The failure kinds handleError knows of.
KnownKinds == {"ScannerError", "DetectionError", "ProcessingError", "StorageError"}

\* C14: a failure of none of the known kinds (a plain exception of the
\* detector, a filesystem error while saving the raw scan or creating the
\* batch directory) puts the workflow in error with recoverable = true.
C14_UnknownFailureRecoverable ==
    (HasRejected /\ lastStep.error.name \notin KnownKinds) =>
        /\ state.status = "error"
        /\ state.recoverable = TRUE

\* C15: a failure inside an accepted startFrontScan, startBackScan or
\* completeBatch is handled once: in the step in which the call rejects, the
\* state becomes error with the failure's message and recoverable flag, then
\* one scan:error (the only one of the step, and its last event) carries the
\* call's scan or batch id and the error the caller gets; scan:error is
\* emitted by no other step; and a call that has rejected or resolved never
\* changes again.
C15_FailureHandledOnce ==
    [][\A o \in CallIds :
          /\ (ops[o].outcome = "pending" /\ ops'[o].outcome = "rejected") =>
                /\ lastStep'.id = o
                /\ lastStep'.outcome = "rejected"
                /\ lastStep'.error # Null
                /\ state' = [status |-> "error",
                             message |-> lastStep'.error.message,
                             recoverable |-> IsRecoverable(lastStep'.error)]
                /\ SelectSeq(emitted', IsScanError) =
                       <<ScanErrorEvent(o, lastStep'.error)>>
                /\ Len(emitted') >= 2
                /\ emitted'[Len(emitted')] = ScanErrorEvent(o, lastStep'.error)
                /\ emitted'[Len(emitted') - 1] = StateChanged(state')
          /\ ops[o].outcome \in {"rejected", "resolved"} => ops'[o] = ops[o]
          /\ ops'[o].outcome = "rejected" => ops[o].outcome \in {"pending", "rejected"}
          /\ (emitted' # emitted /\ SelectSeq(emitted', IsScanError) # <<>>) =>
                lastStep'.outcome = "rejected"]_vars

\* A back scan failed at the scanner after a front scan had failed too: two
\* calls have rejected, the second in this step.
C15_Witness ==
    /\ HasRejected
    /\ lastStep.call.kind = "back"
    /\ state.status = "error"
    /\ \E o \in CallIds \ {lastStep.id} : ops[o].outcome = "rejected"
    /\ SelectSeq(emitted, IsScanError) = <<ScanErrorEvent(lastStep.id, lastStep.error)>>

\* The files savePair writes for the i-th pair of a batch.
FilesOfPair(batchId, pairs, i) ==
    {PairFile(batchId, i - 1, pairs[i], "front")} \cup
    (IF pairs[i].back # Null
     THEN {PairFile(batchId, i - 1, pairs[i], "back")} ELSE {})

\* The elements of a sequence.
Range(s) == {s[i] : i \in 1..Len(s)}

IsBatchComplete(e) == e.type = "batch:complete"

\* C16: when a write of savePair fails in completeBatch(), the files of the
\* pairs saved before are all on disk, nothing of a later pair is written
\* (the only other files are those the failing pair wrote before its
\* failure), the state is error with recoverable = false, the call rejects,
\* and it has emitted no batch:complete and never entered complete.
C16_PartialBatchKept ==
    (HasRejected /\ lastStep.error.name = "StorageError") =>
        LET c == lastStep.call
            b == lastStep.id
            disk == Range(c.written)
        IN  /\ c.kind = "batch"
            /\ c.savedCount < Len(c.pairs)
            /\ \A i \in 1..c.savedCount : FilesOfPair(b, c.pairs, i) \subseteq disk
            /\ \A i \in (c.savedCount + 2)..Len(c.pairs) :
                   FilesOfPair(b, c.pairs, i) \cap disk = {}
            /\ disk \subseteq
                   UNION {FilesOfPair(b, c.pairs, i) : i \in 1..(c.savedCount + 1)}
            /\ state.status = "error"
            /\ state.recoverable = FALSE
            /\ SelectSeq(emitted, IsBatchComplete) = <<>>
            /\ \A i \in 1..Len(c.trail) : c.trail[i].status # "complete"
            /\ ops[b].outcome = "rejected"
            /\ ops[b].pc = "done"

\* The first pair of a batch (front and back) is on disk and the write of
\* the second pair's front failed.
C16_Witness ==
    /\ HasRejected
    /\ lastStep.error.name = "StorageError"
    /\ lastStep.call.savedCount = 1
    /\ Len(lastStep.call.pairs) = 2
    /\ Len(lastStep.call.written) = 2
    /\ lastStep.call.pc = "writeFront"
    /\ state.status = "error"

IsScanProgress(e) == e.type = "scan:progress"

\* The progress values of the scan:progress events among es, in order.
ProgressOf(es) ==
    LET p == SelectSeq(es, IsScanProgress)
    IN  [i \in 1..Len(p) |-> p[i].progress]

NonDecreasing(s) == \A i \in 1..(Len(s) - 1) : s[i] <= s[i + 1]

\* C17: the progress values of one scan never decrease: whenever two
\* successive steps belong to the same scan, the scan:progress values of the
\* first followed by those of the second are non-decreasing.
C17_ProgressNeverRegresses ==
    [][(lastStep.id > 0 /\ lastStep'.id = lastStep.id) =>
          /\ \A i \in 1..Len(emitted') :
                 IsScanProgress(emitted'[i]) => emitted'[i].scanId = lastStep.id
          /\ NonDecreasing(ProgressOf(emitted) \o ProgressOf(emitted'))]_vars

\* The band of the overall progress a stage maps into.
Band(stage) ==
    CASE stage = "initiating" -> 0..10
      [] stage = "scanning" -> 10..80
      [] stage = "downloading" -> 80..100

\* C18: the progress callback maps every percentage 0..100 of a stage into
\* the stage's band (initiating 0..10, scanning 10..80, downloading 80..100),
\* never below what it gives for a smaller percentage of the stage, and the
\* bands meet: the start of a stage gives its band's lower end, the end of a
\* stage its upper end (10, 80, 100), which is the next band's lower end.
C18_ProgressBands ==
    lastStep.op = "progressCallback" =>
        LET stage == lastStep.call.stage
            pct == lastStep.call.progress
            overall == emitted[1].progress
        IN  /\ emitted = <<ScanProgress(lastStep.id, overall)>>
            /\ overall \in Band(stage)
            /\ \A q \in 0..pct : overallProgress(stage, q) <= overall
            /\ pct = 0 => \A b \in Band(stage) : overall <= b
            /\ pct = 100 => \A b \in Band(stage) : b <= overall
            /\ (pct = 100 /\ stage = "initiating") =>
                   overall = overallProgress("scanning", 0)
            /\ (pct = 100 /\ stage = "scanning") =>
                   overall = overallProgress("downloading", 0)
            /\ (pct = 100 /\ stage = "downloading") => overall = 100

\* The scanning stage at 45 percent, where 45 * 0.7 is just below 31.5 in
\* doubles: the overall progress is 41.
C18_Witness ==
    /\ lastStep.op = "progressCallback"
    /\ lastStep.call.stage = "scanning"
    /\ lastStep.call.progress = 45
    /\ emitted = <<ScanProgress(lastStep.id, 41)>>

\* The regions of scan o whose crop and enhancement have begun while the scan
\* is in cropAndEnhancePhotos: those already processed and the one the loop
\* awaits.
Started(o) == 1..(Len(ops[o].processed) + 1)

\* The regions of scan o whose crop and enhancement have finished.
Finished(o) == 1..Len(ops[o].processed)

\* C19: within one scan the detected regions are cropped and enhanced
\* concurrently: while the scan is in cropAndEnhancePhotos every detected
\* region has been started, whatever has finished so far (fan-out); and a
\* scan that resolves has finished every region (fan-in).
C19_ConcurrentEnhancement ==
    /\ \A o \in InFlight :
          ops[o].pc = "enhance" =>
              /\ Finished(o) \subseteq Started(o)
              /\ Started(o) = 1..Len(ops[o].detected)
    /\ (lastStep.outcome = "resolved" /\ lastStep.op \in {"startFrontScan", "startBackScan"}) =>
          Len(lastStep.call.processed) = Len(lastStep.call.detected)

\* The back photos completeBatch pairs: backScanResult?.detectedPhotos ?? [].
BacksOf(result) == IF result = Null THEN <<>> ELSE result.detectedPhotos

\* C20: the pairs completeBatch() saves are the pairing engine's pairs for
\* the retained front photos and back photos (or the empty list): when a
\* completeBatch() is accepted, the pairs it goes on to save are
\* pairPhotos(fronts, backs).pairs, in canonical position order with the
\* first occurrence of a duplicate position.
C20_BatchPairsAreEnginePairs ==
    (lastStep.op = "completeBatch" /\ lastStep.outcome = "accepted") =>
        LET c == ops[lastStep.id]
        IN  c.pairs = pairPhotos(c.frontAtCall.detectedPhotos,
                                 BacksOf(c.backAtCall)).pairs

\* The files of the first n pairs of a batch, in the order savePair writes
\* them: photo-00i-<position>-front.jpg, then -back.jpg if pair i has a back.
RECURSIVE FilesInOrder(_, _, _)
FilesInOrder(batchId, pairs, n) ==
    IF n = 0 THEN <<>>
    ELSE FilesInOrder(batchId, pairs, n - 1) \o
         <<[dir |-> batchId,
            name |-> <<"photo", <<0, 0, n>>, pairs[n].position, "front", "jpg">>,
            image |-> pairs[n].front.image]>> \o
         (IF pairs[n].back = Null THEN <<>>
          ELSE <<[dir |-> batchId,
                  name |-> <<"photo", <<0, 0, n>>, pairs[n].position, "back", "jpg">>,
                  image |-> pairs[n].back.image]>>)

\* The number of photos of a retained result, 0 for none.
PhotoCount(result) == IF result = Null THEN 0 ELSE Len(result.detectedPhotos)

\* C21: when completeBatch() resolves, pair number i of its pairing was
\* written as photo-<00i>-<position>-front.jpg in the batch's directory,
\* with photo-<00i>-<position>-back.jpg exactly when the pair has a back,
\* and nothing else was written; the BatchResult has pairsSaved = the number
\* of pairs written and totalPhotos = the number of photos of the retained
\* front result plus that of the retained back result (0 without one), as
\* retained when the result is built.
C21_BatchFilesAndResult ==
    [][(lastStep'.op = "completeBatch" /\ lastStep'.outcome = "resolved") =>
          LET c == lastStep'.call
              b == lastStep'.id
          IN  /\ ops[b].outcome = "pending"
              /\ c.written = FilesInOrder(b, c.pairs, Len(c.pairs))
              /\ lastStep'.ret.batchId = b
              /\ lastStep'.ret.outputDirectory = b
              /\ lastStep'.ret.pairsSaved = Len(c.pairs)
              /\ lastStep'.ret.pairsSaved = c.savedCount
              /\ lastStep'.ret.totalPhotos =
                     PhotoCount(frontScanResult) + PhotoCount(backScanResult)
              /\ (frontScanResult = c.frontAtCall /\ backScanResult = c.backAtCall) =>
                     lastStep'.ret.totalPhotos =
                         Len(c.frontAtCall.detectedPhotos) + Len(BacksOf(c.backAtCall))]_vars

\* A batch of two pairs, each with a back, resolved: four files, two fronts
\* and two backs.
C21_Witness ==
    /\ HasResolved("completeBatch")
    /\ Len(lastStep.call.pairs) = 2
    /\ Len(lastStep.call.written) = 4
    /\ lastStep.call.pairs[2].back # Null
    /\ lastStep.ret.pairsSaved = 2
    /\ lastStep.ret.totalPhotos = 4

\* The scanners a discovery can put first.
FirstScanners == {found[1] : found \in Discoveries \ {<<>>}}

\* C22: isScannerReady() never throws and never touches the workflow: its
\* steps leave the state and the retained results alone and emit nothing; it
\* resolves to true only with a discovered scanner cached, and to false with
\* no scanner cached by it (the cache is cleared, or left as it was when
\* the discovery failed); and a scan accepted while a scanner is cached
\* (as right after a probe that returned true) starts its scan job with that
\* scanner, without a discovery.
C22_ProbeNeverThrows ==
    [][/\ lastStep'.op = "isScannerReady" =>
             /\ lastStep'.outcome \in {"pending", "resolved"}
             /\ lastStep'.error = Null
             /\ UNCHANGED <<state, frontScanResult, backScanResult, ops>>
             /\ emitted' = <<>>
             /\ lastStep'.outcome = "pending" => UNCHANGED currentScanner
             /\ lastStep'.outcome = "resolved" =>
                   /\ lastStep'.ret \in BOOLEAN
                   /\ lastStep'.ret = TRUE => currentScanner' \in FirstScanners
                   /\ lastStep'.ret = FALSE =>
                         currentScanner' \in {"null", currentScanner}
       /\ ((Accepted("startFrontScan") \/ Accepted("startBackScan"))
              /\ currentScanner # "null") =>
             /\ ops'[lastStep'.id].pc = "createJob"
             /\ ops'[lastStep'.id].scanner = currentScanner
             /\ UNCHANGED currentScanner]_vars

\* Right after a probe returned true, with no scan made before, a front scan
\* was accepted and went straight to its scan job.
C22_Witness ==
    /\ lastStep.op = "startFrontScan"
    /\ lastStep.outcome = "accepted"
    /\ lastStep.id = 1
    /\ currentScanner \in FirstScanners
    /\ ops[1].pc = "createJob"
    /\ ops[1].scanner = currentScanner

\* The states in which an operation is under way.
Busy == {"scanning_fronts", "processing_fronts", "scanning_backs",
         "processing_backs", "saving"}

\* C23: when every awaited collaborator call eventually returns or fails,
\* every accepted startFrontScan, startBackScan or completeBatch eventually
\* resolves or rejects, and a workflow in scanning_fronts,
\* processing_fronts, scanning_backs, processing_backs or saving eventually
\* reaches ready_for_backs, idle or error.
C23_CallsSettle ==
    /\ \A o \in CallIds :
          (ops[o].outcome = "pending") ~>
              (ops[o].outcome \in {"resolved", "rejected"})
    /\ (state.status \in Busy) ~>
           (state.status \in {"ready_for_backs", "idle", "error"})

\* A back scan resolved and no call is left in flight.
C23_Witness ==
    /\ HasResolved("startBackScan")
    /\ state.status = "ready_for_backs"
    /\ InFlight = {}
    /\ \A i \in 1..Len(lastStep.call.trail) : lastStep.call.trail[i].status # "error"

\* pairPhotos has thrown or returned.
Paired == lastStep.op = "pairPhotos" /\ lastStep.outcome # "called"

\* pairPhotos has returned.
PairedOk == lastStep.op = "pairPhotos" /\ lastStep.outcome = "resolved"

\* C24: pairPhotos(fronts, backs) throws for every backs, the empty list
\* included, when fronts is empty, and returns for every backs when fronts
\* is not empty.
C24_EmptyFrontsRejected ==
    Paired =>
        /\ lastStep.call.fronts = <<>> =>
               /\ lastStep.outcome = "rejected"
               /\ lastStep.error.name = "Error"
               /\ lastStep.ret = Null
        /\ lastStep.call.fronts # <<>> =>
               /\ lastStep.outcome = "resolved"
               /\ lastStep.error = Null
               /\ lastStep.ret # Null

\* No fronts and two backs: thrown.
C24_Witness ==
    /\ Paired
    /\ lastStep.call.fronts = <<>>
    /\ Len(lastStep.call.backs) = 2
    /\ lastStep.outcome = "rejected"

\* The positions of the photos of a list.
PositionsOf(photos) == {photos[i].position : i \in 1..Len(photos)}

\* The place of position p in the canonical order.
Rank(p) ==
    CASE p = "top-left" -> 1
      [] p = "top-right" -> 2
      [] p = "bottom-left" -> 3
      [] p = "bottom-right" -> 4

\* C25: for non-empty fronts and any backs, in any order, pairPhotos returns
\* exactly one pair per distinct position of fronts and none for another
\* position, listed in the order top-left, top-right, bottom-left,
\* bottom-right, and each pair's position is its front's position.
C25_OnePairPerFrontPosition ==
    PairedOk =>
        LET pairs == lastStep.ret.pairs
            fronts == lastStep.call.fronts
        IN  /\ {pairs[k].position : k \in 1..Len(pairs)} = PositionsOf(fronts)
            /\ Len(pairs) = Cardinality(PositionsOf(fronts))
            /\ \A k \in 1..(Len(pairs) - 1) :
                   Rank(pairs[k].position) < Rank(pairs[k + 1].position)
            /\ \A k \in 1..Len(pairs) :
                   /\ pairs[k].front.position = pairs[k].position
                   /\ \E i \in 1..Len(fronts) : pairs[k].front = fronts[i]

\* Fronts given bottom-right, top-left, top-left: two pairs, top-left first.
C25_Witness ==
    /\ PairedOk
    /\ Len(lastStep.call.fronts) = 3
    /\ lastStep.call.fronts[1].position = "bottom-right"
    /\ lastStep.call.fronts[2].position = "top-left"
    /\ lastStep.call.fronts[3].position = "top-left"
    /\ Len(lastStep.ret.pairs) = 2
    /\ lastStep.ret.pairs[1].position = "top-left"
    /\ lastStep.ret.pairs[2].position = "bottom-right"

\* photos[i] is the first photo of the list at position p.
IsFirstAt(photos, i, p) ==
    /\ photos[i].position = p
    /\ \A j \in 1..(i - 1) : photos[j].position # p

\* C26: the front of the pair at position p is the first front, in input
\* order, at p; the pair has a back exactly when backs holds a photo at p,
\* and the back is then the first back, in input order, at p (a back has its
\* pair's position, and with no backs no pair has a back).
C26_FirstOccurrenceWins ==
    PairedOk =>
        LET pairs == lastStep.ret.pairs
            fronts == lastStep.call.fronts
            backs == lastStep.call.backs
        IN  \A k \in 1..Len(pairs) :
                LET p == pairs[k].position
                IN  /\ \E i \in 1..Len(fronts) :
                           /\ pairs[k].front = fronts[i]
                           /\ IsFirstAt(fronts, i, p)
                    /\ (pairs[k].back # Null) <=> (p \in PositionsOf(backs))
                    /\ pairs[k].back # Null =>
                           /\ pairs[k].back.position = p
                           /\ \E i \in 1..Len(backs) :
                                  /\ pairs[k].back = backs[i]
                                  /\ IsFirstAt(backs, i, p)
                    /\ backs = <<>> => pairs[k].back = Null

\* Two fronts and two backs at top-left, after a back elsewhere: the pair is
\* the first front with the first of the two backs.
C26_Witness ==
    /\ PairedOk
    /\ Len(lastStep.call.fronts) = 2
    /\ PositionsOf(lastStep.call.fronts) = {"top-left"}
    /\ Len(lastStep.call.backs) = 3
    /\ lastStep.call.backs[1].position = "top-right"
    /\ lastStep.call.backs[2].position = "top-left"
    /\ lastStep.call.backs[3].position = "top-left"
    /\ Len(lastStep.ret.pairs) = 1
    /\ lastStep.ret.pairs[1].front = lastStep.call.fronts[1]
    /\ lastStep.ret.pairs[1].back = lastStep.call.backs[2]

\* The duplicate warnings for one side and position among the warnings ws.
DuplicateWarningsFor(ws, side, p) ==
    {i \in 1..Len(ws) : ws[i][1] = "Duplicate" /\ ws[i][2] = side /\ ws[i][4] = p}

\* C27: for each position holding more than one front, pairPhotos emits
\* exactly one warning naming the position and the number of fronts there,
\* and likewise for the backs; a position holding at most one photo of a
\* side gets no duplicate warning for that side.
C27_DuplicateWarnings ==
    PairedOk =>
        LET ws == lastStep.ret.warnings
            Of(side) == IF side = "front" THEN lastStep.call.fronts
                        ELSE lastStep.call.backs
        IN  \A side \in {"front", "back"}, p \in Positions :
                LET n == Cardinality(IndicesAt(Of(side), p))
                    found == DuplicateWarningsFor(ws, side, p)
                IN  /\ n > 1 => /\ Cardinality(found) = 1
                                /\ \A i \in found : ws[i][5] = n
                    /\ n <= 1 => found = {}

\* Three fronts at one position and two of the three backs at another.
C27_Witness ==
    /\ PairedOk
    /\ Len(lastStep.call.fronts) = 3
    /\ PositionsOf(lastStep.call.fronts) = {"top-right"}
    /\ Len(lastStep.call.backs) = 3
    /\ Cardinality(IndicesAt(lastStep.call.backs, "bottom-left")) = 2
    /\ Cardinality(DuplicateWarningsFor(lastStep.ret.warnings, "front", "top-right")) = 1
    /\ Cardinality(DuplicateWarningsFor(lastStep.ret.warnings, "back", "bottom-left")) = 1

\* The count-mismatch warnings among the warnings ws.
CountMismatches(ws) == {i \in 1..Len(ws) : ws[i][1] = "Photo count mismatch"}

\* C28: pairPhotos emits exactly one count-mismatch warning when the two
\* lists differ in length (duplicates counted) and none when they do not;
\* the pairs are produced all the same, one per position of the fronts; so
\* with no backs and some fronts it returns with exactly one such warning.
C28_CountMismatchWarning ==
    PairedOk =>
        LET ws == lastStep.ret.warnings
            fronts == lastStep.call.fronts
            backs == lastStep.call.backs
        IN  /\ Len(fronts) # Len(backs) =>
                   /\ Cardinality(CountMismatches(ws)) = 1
                   /\ \A i \in CountMismatches(ws) :
                          ws[i] = <<"Photo count mismatch", Len(fronts), Len(backs)>>
            /\ Len(fronts) = Len(backs) => CountMismatches(ws) = {}
            /\ Len(lastStep.ret.pairs) = Cardinality(PositionsOf(fronts))
            /\ lastStep.ret.pairs # <<>>
            /\ backs = <<>> => Cardinality(CountMismatches(ws)) = 1

\* Two fronts at one position and one back: the lengths differ although each
\* side holds one position.
C28_Witness ==
    /\ PairedOk
    /\ Len(lastStep.call.fronts) = 2
    /\ Len(lastStep.call.backs) = 1
    /\ PositionsOf(lastStep.call.fronts) = PositionsOf(lastStep.call.backs)
    /\ Cardinality(CountMismatches(lastStep.ret.warnings)) = 1
    /\ Len(lastStep.ret.pairs) = 1

\* The extra-back warnings among the warnings ws.
ExtraBacks(ws) ==
    {i \in 1..Len(ws) :
        ws[i][1] = "Extra back photos without matching fronts at positions"}

\* C29: a back at a position that holds no front is in no pair; when there
\* are such positions pairPhotos emits exactly one warning, which lists each
\* of them once, and it emits no such warning when there is none.
C29_ExtraBacksWarned ==
    PairedOk =>
        LET ws == lastStep.ret.warnings
            pairs == lastStep.ret.pairs
            fronts == lastStep.call.fronts
            backs == lastStep.call.backs
            extra == PositionsOf(backs) \ PositionsOf(fronts)
        IN  /\ \A k \in 1..Len(pairs), i \in 1..Len(backs) :
                   backs[i].position \in extra => pairs[k].back # backs[i]
            /\ extra # {} =>
                   /\ Cardinality(ExtraBacks(ws)) = 1
                   /\ \A i \in ExtraBacks(ws) :
                          /\ Range(ws[i][2]) = extra
                          /\ Len(ws[i][2]) = Cardinality(extra)
            /\ extra = {} => ExtraBacks(ws) = {}

\* A front at top-left, backs at top-left, bottom-right and top-right: one
\* pair with its back and one warning naming the other two positions.
C29_Witness ==
    /\ PairedOk
    /\ PositionsOf(lastStep.call.fronts) = {"top-left"}
    /\ Len(lastStep.call.backs) = 3
    /\ PositionsOf(lastStep.call.backs) = {"top-left", "bottom-right", "top-right"}
    /\ Len(lastStep.ret.pairs) = 1
    /\ lastStep.ret.pairs[1].back # Null
    /\ \E i \in ExtraBacks(lastStep.ret.warnings) :
           Len(lastStep.ret.warnings[i][2]) = 2

\* No position occurs twice in the list.
NoDuplicates(photos) == Cardinality(PositionsOf(photos)) = Len(photos)

\* C30: when fronts and backs occupy the same set of positions and neither
\* holds a position twice, pairPhotos returns one pair per position, each
\* with a front and a back, and no warning.
C30_PerfectMatch ==
    (/\ PairedOk
     /\ PositionsOf(lastStep.call.fronts) = PositionsOf(lastStep.call.backs)
     /\ NoDuplicates(lastStep.call.fronts)
     /\ NoDuplicates(lastStep.call.backs)) =>
        LET pairs == lastStep.ret.pairs
        IN  /\ Len(pairs) = Len(lastStep.call.fronts)
            /\ {pairs[k].position : k \in 1..Len(pairs)} =
                   PositionsOf(lastStep.call.fronts)
            /\ \A k \in 1..Len(pairs) :
                   /\ pairs[k].front # Null
                   /\ pairs[k].back # Null
                   /\ pairs[k].front.position = pairs[k].position
                   /\ pairs[k].back.position = pairs[k].position
            /\ lastStep.ret.warnings = <<>>

\* Three fronts and three backs at the same three positions, in different
\* orders.
C30_Witness ==
    /\ PairedOk
    /\ Len(lastStep.call.fronts) = 3
    /\ Len(lastStep.call.backs) = 3
    /\ NoDuplicates(lastStep.call.fronts)
    /\ NoDuplicates(lastStep.call.backs)
    /\ PositionsOf(lastStep.call.fronts) = PositionsOf(lastStep.call.backs)
    /\ lastStep.call.fronts[1].position # lastStep.call.backs[1].position
    /\ Len(lastStep.ret.pairs) = 3
    /\ lastStep.ret.warnings = <<>>

C32_ReadyForBacksHasFront ==
    /\ state.status = "ready_for_backs" =>
          /\ frontScanResult # Null
          /\ frontScanResult.scanId = state.frontScanId
          /\ frontScanResult.photosDetected = state.photosDetected
          /\ Len(frontScanResult.detectedPhotos) = state.photosDetected
    /\ CanStartBackScan => frontScanResult # Null
    /\ lastStep.error # PlainError(<<"No front scan result available">>)

\* A front scan that a reset() had overtaken resolved after a second front
\* scan had been started: ready_for_backs for the first scan's result while
\* the second is still scanning.
C32_Witness ==
    /\ state.status = "ready_for_backs"
    /\ frontScanResult # Null
    /\ frontScanResult.scanId = 1
    /\ resets > 0
    /\ \E o \in InFlight : ops[o].kind = "front"

\* The step x is an accepted startBackScan() or completeBatch() that failed.
FailedWithWork(x) ==
    /\ x.op \in {"startBackScan", "completeBatch"}
    /\ x.id > 0
    /\ x.outcome = "rejected"

\* C33: a failed operation discards no retained work: when an accepted
\* startBackScan() or completeBatch() fails and the state becomes error, the
\* retained front result and back result are what they were when the
\* operation was called, and they stay so until reset() is called.
C33_FailureKeepsRetainedWork ==
    [][/\ (FailedWithWork(lastStep') /\ state'.status = "error" /\ resets' = 0) =>
             /\ frontScanResult' = lastStep'.call.frontAtCall
             /\ backScanResult' = lastStep'.call.backAtCall
       /\ (FailedWithWork(lastStep) /\ state.status = "error"
             /\ lastStep'.op # "reset") =>
             /\ frontScanResult' = frontScanResult
             /\ backScanResult' = backScanResult]_vars

\* The events among es that announce a batch or the state complete.
Announcing(es) ==
    SelectSeq(es, LAMBDA e : \/ IsBatchComplete(e)
                             \/ /\ e.type = "state:changed"
                                /\ e.state.status = "complete")

\* C34: a completeBatch() that succeeds emits state:changed(saving) when it
\* is accepted, and in the one step in which it resolves state:changed(complete
\* with its batchId and the number of pairs saved), then one batch:complete
\* with the BatchResult, then state:changed(idle); these are all its state
\* changes, in this order; the results were still retained when that step
\* began; no other step emits batch:complete or complete; and complete is
\* never the state after a step.
C34_BatchEventsInOrder ==
    [][/\ (lastStep'.op = "completeBatch" /\ lastStep'.outcome = "accepted") =>
             emitted' = <<StateChanged(Saving(lastStep'.id))>>
       /\ (lastStep'.op = "completeBatch" /\ lastStep'.outcome = "resolved") =>
             LET id == lastStep'.id
                 complete == [status |-> "complete", batchId |-> id,
                              photosSaved |-> lastStep'.ret.pairsSaved]
             IN  /\ emitted' = <<StateChanged(complete),
                                 BatchComplete(lastStep'.ret),
                                 StateChanged(IdleState)>>
                 /\ lastStep'.ret.batchId = id
                 /\ lastStep'.ret.pairsSaved = Len(lastStep'.call.pairs)
                 /\ lastStep'.call.trail = <<Saving(id), complete, IdleState>>
                 /\ frontScanResult # Null
                 /\ lastStep'.ret.totalPhotos =
                        PhotoCount(frontScanResult) + PhotoCount(backScanResult)
                 /\ ops[id].outcome = "pending"
                 /\ ops'[id].outcome = "resolved"
                 /\ state' = IdleState
       /\ Announcing(emitted') # <<>> =>
             (lastStep'.op = "completeBatch" /\ lastStep'.outcome = "resolved")
       /\ state'.status # "complete"]_vars

\* A batch of two pairs of fronts and backs resolved: its three last events
\* came in one step, which left the state idle.
C34_Witness ==
    /\ HasResolved("completeBatch")
    /\ Len(emitted) = 3
    /\ IsBatchComplete(emitted[2])
    /\ emitted[2].result.pairsSaved = 2
    /\ lastStep.call.backAtCall # Null
    /\ state = IdleState

\* The scan events among es that carry the identifier id, in order.
ScanEventsOf(es, id) ==
    SelectSeq(es, LAMBDA e : /\ e.type \in {"scan:started", "scan:progress",
                                            "scan:complete", "scan:error"}
                             /\ e.scanId = id)

\* scan:complete and scan:error end a scan.
Ends(e) == IsScanComplete(e) \/ IsScanError(e)

\* C35: for every scan identifier, scan:started is emitted once, before any
\* scan:progress, scan:complete or scan:error of that identifier; at most one
\* scan:complete or scan:error is ever emitted for it; and no scan:progress
\* follows its scan:complete or scan:error.
C35_ScanEventsWellFormed ==
    [][\A id \in CallIds :
          ops'[id].kind \in {"front", "back"} =>
             LET es == ScanEventsOf(emitted', id)
             IN  /\ ops[id].kind = "none" =>
                       /\ es # <<>>
                       /\ es[1].type = "scan:started"
                       /\ \A i \in 2..Len(es) : es[i].type # "scan:started"
                 /\ ops[id].kind # "none" =>
                       /\ \A i \in 1..Len(es) : es[i].type # "scan:started"
                       /\ es # <<>> => ops[id].outcome = "pending"
                 /\ Cardinality({i \in 1..Len(es) : Ends(es[i])}) <= 1
                 /\ \A i, j \in 1..Len(es) :
                       (i < j /\ Ends(es[i])) => ~IsScanProgress(es[j])
                 /\ (\E i \in 1..Len(es) : Ends(es[i])) =>
                       ops'[id].outcome # "pending"]_vars

\* The number of Processing polls among the first n of seen.
RECURSIVE ProcessingSeen(_, _)
ProcessingSeen(seen, n) ==
    IF n = 0 THEN 0
    ELSE ProcessingSeen(seen, n - 1) + (IF seen[n] = "Processing" THEN 1 ELSE 0)

\* With its n-th poll the scanner has been observed in Processing 5 times in
\* total, or in Idle after at least one Processing.
ObservedReady(seen, n) ==
    \/ seen[n] = "Processing" /\ ProcessingSeen(seen, n) = 5
    \/ seen[n] = "Idle" /\ ProcessingSeen(seen, n - 1) >= 1

\* C36: waitForScanReady returns true as soon as the scanner has been
\* observed in Processing on 5 polls in total, or in Idle on a poll after at
\* least one Processing poll; failed polls and other states are ignored and
\* do not reset the count; when the loop is entered again at or after the
\* timeout it returns false; it never returns true without a Processing poll.
C36_WaitForScanReady ==
    [][lastStep'.op = "performScan" =>
          LET w == lastStep'.call
              n == Len(w.seen)
          IN  /\ w.ready = "true" =>
                    /\ n > 0
                    /\ ObservedReady(w.seen, n)
                    /\ ProcessingSeen(w.seen, n) >= 1
              /\ \A k \in 1..n : ObservedReady(w.seen, k) => (k = n /\ w.ready = "true")
              /\ w.ready = "false" => w.now >= w.timeout
              /\ (lastStep.call.pc = "waitReady"
                    /\ lastStep.call.now >= lastStep.call.timeout) =>
                    w.ready = "false"
              /\ (lastStep.call.pc = "waitReady"
                    /\ lastStep.call.now < lastStep.call.timeout) =>
                    /\ w.ready # "false"
                    /\ n = Len(lastStep.call.seen) + 1]_vars

\* waitForScanReady returned true on the fifth Processing poll, after polls
\* in between that failed or reported another state.
C36_Witness ==
    /\ lastStep.op = "performScan"
    /\ lastStep.call.ready = "true"
    /\ Len(lastStep.call.seen) = 7
    /\ lastStep.call.seen[7] = "Processing"
    /\ \E i, j \in 2..6 : /\ lastStep.call.seen[i] = "Stopped"
                          /\ lastStep.call.seen[j] \in {"NotOk", "Threw"}

\* The onProgress calls of a performScan that succeeds.
FullProgress ==
    <<<<"initiating", 0>>, <<"initiating", 100>>, <<"scanning", 0>>,
      <<"scanning", 100>>, <<"downloading", 0>>, <<"downloading", 100>>>>

ScanStartFails ==
    /\ lastStep'.op \in {"startFrontScan", "startBackScan"}
    /\ lastStep'.outcome = "rejected"

\* C38: every scan:start request whose scan fails, a request turned down for
\* the workflow state included, makes the server broadcast a scan:error: the
\* socket handler swallows the rejection and leaves the report to the
\* orchestrator's scan:error event.
C38_FailedScanStartIsBroadcast ==
    [][ScanStartFails =>
          \E i \in 1..Len(Broadcast(emitted')) :
              /\ Broadcast(emitted')[i].type = "scan:error"
              /\ Broadcast(emitted')[i].message = lastStep'.error.message]_vars

\* The step makes the orchestrator enter error while the store's socket is
\* connected.
EntersError ==
    /\ state'.status = "error"
    /\ \E i \in 1..Len(emitted') : emitted'[i] = StateChanged(state')
    /\ store.socket = "connected"

\* C39: when the orchestrator enters error, the state of a connected client
\* store becomes error with the same message and the same recoverable flag,
\* so that an unrecoverable failure is never shown as one to retry.
C39_StoreMirrorsError ==
    [][EntersError =>
          /\ store'.state.status = "error"
          /\ store'.state.message = state'.message
          /\ store'.state.recoverable = state'.recoverable]_vars

\* The front scans that have succeeded.
ResolvedFronts ==
    {o \in CallIds : ops[o].kind = "front" /\ ops[o].outcome = "resolved"}

\* A connected store that had issued startScan('front') sees the
\* orchestrator's front scan succeed.
FrontScanSucceedsForStore ==
    /\ store.socket = "connected"
    /\ store.state = [status |-> "scanning_fronts", scanId |-> "pending"]
    /\ HasResolved("startFrontScan")

\* The store is ready for backs with a front scan of the orchestrator.
StoreReadyForBacks ==
    /\ store.state.status = "ready_for_backs"
    /\ store.state.frontScanId \in ResolvedFronts

\* C40: the client store follows the orchestrator: after a connected store
\* has issued startScan('front') and the orchestrator's front scan has
\* succeeded, the store's state eventually becomes ready_for_backs with the
\* orchestrator's frontScanId and photosDetected, every broadcast being
\* delivered in order.
C40_StoreFollowsFrontScan == FrontScanSucceedsForStore ~> StoreReadyForBacks

====
